---- MODULE Spec2Model ----
(***************************************************************************)
(* Verification model of the SWORDS collect_variables scripts.             *)
(*                                                                         *)
(* Every script is an independent command-line program, so every script    *)
(* gets its own specification over its own variables; the variables of     *)
(* the scripts a specification does not run stay at their idle value.      *)
(*                                                                         *)
(*   SpecHook    ci_practices/check_pre_commit_hooks.py                    *)
(*   SpecCI      ci_practices/continious_integration.py                    *)
(*   SpecCMake   dependency_practices/cmake_crawler.py                     *)
(*   SpecPool    documentation_practices/check_contributing_conduct.py     *)
(*   SpecReadme  parse_readme/readme_content.py                            *)
(*   SpecConduct documentation_practices/check_conducnt.py                 *)
(*                                                                         *)
(* The GitHub API, git and the file system are the environment: every      *)
(* call into them is answered nondeterministically with one of the         *)
(* outcomes the code distinguishes.                                        *)
(***************************************************************************)
EXTENDS Integers, Sequences, FiniteSets, TLC

VARIABLES
    \* check_pre_commit_hooks.main
    hk_pc,        \* position ("merge", "row", "try", "done", "raised")
    hk_existing,  \* existing_df: the output of an earlier run, if any
    hk_input,     \* input_df: rows [html_url, Language]
    hk_idx,       \* index of the merged_df row the loop is at
    hk_df,        \* merged_df: rows [html_url, in_input, pre_commit, stars, Language]
    hk_result,    \* per row, the value check_ci_hook returned ("" = not called)
    hk_log,       \* per row, the GitHub attempts and sleeps of check_ci_hook
    hk_skipped,   \* skipped_urls
    hk_out,       \* the written output file, or NoFile
    \* continious_integration.main
    ci_pc,        \* position ("row", "done")
    ci_idx,       \* index of the merged_df row the loop is at
    ci_df,        \* merged_df: rows [html_url, in_input, continuous_integration, ci_tool]
    ci_hist,      \* per row, how the loop body ended and what the GitHub calls did
    ci_disk,      \* the output CSV on disk, or NoFile
    \* cmake_crawler.process_csv_and_handle_repos
    cm_pc,        \* position ("loop", "done", "aborted")
    cm_idx,       \* index of the input row the loop is at
    cm_rows,      \* the rows of the input CSV
    cm_results,   \* results: the rows analysed so far
    cm_out,       \* the written output CSV, or NoFile
    \* check_contributing_conduct.process_repositories
    pl_pc,        \* main thread: "submit", "collect", "done"
    pl_idx,       \* row index of the loop of _submit_tasks
    pl_input,     \* the table as _read_input_csv returned it
    pl_df,        \* data_frame: rows [html_url, has_contributing, has_code_of_conduct]
    pl_futures,   \* future_to_index, in submission order
    pl_task,      \* per future, where its worker is and what it computed
    pl_writes,    \* the results applied to data_frame so far
    pl_calls,     \* the rate-limit queries sent, and whether the last one slept
    pl_out,       \* the written output CSV, or NoFile
    \* readme_content.fetch_readme_content
    rd_pc,        \* "call", "returned"
    rd_log,       \* the requests and sleeps of the call, in order
    rd_ret,       \* the returned text
    \* check_conducnt.check_code_of_conduct_file
    cd_pc,        \* "request", "returned"
    cd_stack,     \* the frames of check_code_of_conduct_recursive
    cd_log,       \* the requests and sleeps, in order
    cd_ret,       \* the returned value
    \* comment_at_start.analyze_repositories
    cs_pc,        \* "row", "done", "raised"
    cs_idx,       \* row index of the loop of analyze_repositories
    cs_df,        \* data_frame: rows [html_url, comment_percentage, comment_category]
    cs_ret,       \* per row, what process_repository did
    cs_disk,       \* the written output CSV, or NoFile
    \* add_ci_test_rule.process_csv
    tr_pc,        \* "auth", "row", "done"
    tr_token,     \* GITHUB_TOKEN after load_dotenv, "" when not set
    tr_idx,       \* row index of the loop of process_csv
    tr_df,        \* df: rows [html_url, Language, continuous_integration, ci_tool_detected, test_rule_in_ci]
    tr_calls,     \* per row, the GitHub requests made for it
    tr_out,        \* the written output CSV, or NoFile
    \* functions called on their own
    fn_name,      \* the function called
    fn_arg,       \* its arguments
    fn_done,      \* whether it has returned
    fn_ret,        \* what it returned
    \* enrich_repo_data.main
    en_pc,        \* "row", "done", "raised"
    en_idx,       \* row index of the loop of main
    en_df,        \* df: rows [html_url, note]
    en_metadata_list, \* metadata_list
    en_sleeps,    \* the 15-minute sleeps of handle_rate_limit so far
    en_out,        \* the written output CSV, or NoFile
    \* dependency_lock_files.__main__
    lk_pc,        \* position ("row", "done")
    lk_idx,       \* index of the row the loop is at
    lk_df,        \* input_data
    lk_ret,       \* what check_requirements returned for each row
    lk_sleeps,    \* the 15 minute sleeps so far
    lk_out,        \* the written output CSV, or NoFile
    \* check_test_dependency.ensure_rate_headroom
    rh_pc,        \* position ("poll", "wait", "returned", "raised")
    rh_log,       \* what the rate-limit queries of the loop answered
    rh_misses,    \* the polls so far that did not report quota
    rh_slept      \* the seconds slept so far

hookVars == <<hk_pc, hk_existing, hk_input, hk_idx, hk_df, hk_result, hk_log, hk_skipped, hk_out>>
ciVars == <<ci_pc, ci_idx, ci_df, ci_hist, ci_disk>>
cmVars == <<cm_pc, cm_idx, cm_rows, cm_results, cm_out>>
plVars == <<pl_pc, pl_idx, pl_input, pl_df, pl_futures, pl_task, pl_writes, pl_calls, pl_out>>
rdVars == <<rd_pc, rd_log, rd_ret>>
cdVars == <<cd_pc, cd_stack, cd_log, cd_ret>>
csVars == <<cs_pc, cs_idx, cs_df, cs_ret, cs_disk>>
trVars == <<tr_pc, tr_token, tr_idx, tr_df, tr_calls, tr_out>>
fnVars == <<fn_name, fn_arg, fn_done, fn_ret>>
enVars == <<en_pc, en_idx, en_df, en_metadata_list, en_sleeps, en_out>>
lkVars == <<lk_pc, lk_idx, lk_df, lk_ret, lk_sleeps, lk_out>>
rhVars == <<rh_pc, rh_log, rh_misses, rh_slept>>
vars == <<hookVars, ciVars, cmVars, plVars, rdVars, cdVars, csVars, trVars, fnVars, enVars, lkVars, rhVars>>

\* The scripts other than p are not run: their variables start idle ...
OthersIdle(p) ==
    /\ p = "hook" \/ (/\ hk_pc = "idle" /\ hk_idx = 0 /\ hk_df = <<>>
                      /\ hk_existing = <<>> /\ hk_input = <<>>
                      /\ hk_result = <<>> /\ hk_log = <<>> /\ hk_skipped = <<>>
                      /\ hk_out = "idle")
    /\ p = "ci" \/ (/\ ci_pc = "idle" /\ ci_idx = 0 /\ ci_df = <<>>
                    /\ ci_hist = <<>> /\ ci_disk = "idle")
    /\ p = "cmake" \/ (/\ cm_pc = "idle" /\ cm_idx = 0 /\ cm_rows = <<>>
                       /\ cm_results = <<>> /\ cm_out = "idle")
    /\ p = "pool" \/ (/\ pl_pc = "idle" /\ pl_idx = 0 /\ pl_input = <<>> /\ pl_df = <<>>
                      /\ pl_futures = <<>> /\ pl_task = <<>> /\ pl_writes = {}
                      /\ pl_calls = <<>> /\ pl_out = "idle")
    /\ p = "readme" \/ (/\ rd_pc = "idle" /\ rd_log = <<>> /\ rd_ret = "idle")
    /\ p = "conduct" \/ (/\ cd_pc = "idle" /\ cd_stack = <<>> /\ cd_log = <<>>
                         /\ cd_ret = "idle")
    /\ p = "comment" \/ (/\ cs_pc = "idle" /\ cs_idx = 0 /\ cs_df = <<>>
                         /\ cs_ret = <<>> /\ cs_disk = "idle")
    /\ p = "testrule" \/ (/\ tr_pc = "idle" /\ tr_token = "idle" /\ tr_idx = 0 /\ tr_df = <<>> /\ tr_calls = <<>> /\ tr_out = "idle")
    /\ p = "functions" \/ (/\ fn_name = "idle" /\ fn_arg = <<>> /\ fn_done = FALSE /\ fn_ret = <<>>)
    /\ p = "enrich" \/ (/\ en_pc = "idle" /\ en_idx = 0 /\ en_df = <<>> /\ en_metadata_list = <<>> /\ en_sleeps = 0 /\ en_out = "idle")
    /\ p = "lock" \/ (/\ lk_pc = "idle" /\ lk_idx = 0 /\ lk_df = <<>> /\ lk_ret = <<>> /\ lk_sleeps = 0 /\ lk_out = "idle")
    /\ p = "headroom" \/ (/\ rh_pc = "idle" /\ rh_log = <<>> /\ rh_misses = 0 /\ rh_slept = 0)

\* ... and stay so.
OthersUnchanged(p) ==
    /\ IF p = "hook" THEN TRUE ELSE UNCHANGED hookVars
    /\ IF p = "ci" THEN TRUE ELSE UNCHANGED ciVars
    /\ IF p = "cmake" THEN TRUE ELSE UNCHANGED cmVars
    /\ IF p = "pool" THEN TRUE ELSE UNCHANGED plVars
    /\ IF p = "readme" THEN TRUE ELSE UNCHANGED rdVars
    /\ IF p = "conduct" THEN TRUE ELSE UNCHANGED cdVars
    /\ IF p = "comment" THEN TRUE ELSE UNCHANGED csVars
    /\ IF p = "testrule" THEN TRUE ELSE UNCHANGED trVars
    /\ IF p = "functions" THEN TRUE ELSE UNCHANGED fnVars
    /\ IF p = "enrich" THEN TRUE ELSE UNCHANGED enVars
    /\ IF p = "lock" THEN TRUE ELSE UNCHANGED lkVars
    /\ IF p = "headroom" THEN TRUE ELSE UNCHANGED rhVars

(***************************************************************************)
(* Bounds of the model.                                                    *)
(***************************************************************************)
MaxRows == 2          \* rows of an input table
MaxRateLimits == 2    \* rate-limit answers the environment gives per repository
MaxDepth == 2         \* nested directories of a repository
MaxLen == 3           \* pieces of a text a function is called with

(***************************************************************************)
(* Shared values.                                                          *)
(***************************************************************************)
NA == "NA"
NoFile == [written |-> FALSE]

\* A path segment is a name and its extension: "repo" + ".git".
Seg(stem, ext) == [stem |-> stem, ext |-> ext]

\* A URL as urlparse sees it: host and the non-empty path segments.
Url(host, path) == [host |-> host, path |-> path]

GithubUrl     == Url("github.com", <<Seg("owner", ""), Seg("repo", "")>>)
GithubGitUrl  == Url("www.github.com", <<Seg("owner", ""), Seg("repo", ".git")>>)
GithubUserUrl == Url("github.com", <<Seg("owner", "")>>)
GitlabUrl     == Url("gitlab.com", <<Seg("owner", ""), Seg("repo", "")>>)

\* An empty or NaN cell: no host, no path.
MissingUrl == Url("", <<>>)

\* A text with an unmatched '[' where the host belongs ("http://[bad").
MalformedUrl == Url("[", <<>>)

\* urllib.parse.urlparse raises ValueError ("Invalid IPv6 URL") on it.
urlparse_raises(url) == url.host = "["

NoOwnerRepo == [ok |-> FALSE, owner |-> Seg("", ""), repo |-> Seg("", "")]

(***************************************************************************)
(* ci_practices/check_pre_commit_hooks.py                                  *)
(***************************************************************************)
RATE_LIMIT_SLEEP_MINUTES == 20

\* _parse_github_owner_repo: (owner, repo) or None.
hook_parse_github_owner_repo(html_url) ==
    IF html_url.host \notin {"github.com", "www.github.com"} THEN NoOwnerRepo
    ELSE IF Len(html_url.path) < 2 THEN NoOwnerRepo
    ELSE [ok    |-> TRUE,
          owner |-> html_url.path[1],
          repo  |-> IF html_url.path[2].ext = ".git"
                    THEN Seg(html_url.path[2].stem, "")
                    ELSE html_url.path[2]]

\* What one pass through the try block of check_ci_hook can end in: the
\* listing was read (found or not), or get_repo / get_contents raised.
HookTryOutcomes ==
    {"Present", "Not Present", "RateLimitExceededException",
     "GithubException", "ValueError"}

\* Mutant: a rate-limit error is handled like any other GithubException.
check_ci_hook_handler_no_retry(out) ==
    CASE out = "Present"     -> [retry |-> FALSE, sleep |-> 0, result |-> "Present"]
      [] out = "Not Present" -> [retry |-> FALSE, sleep |-> 0, result |-> "Not Present"]
      [] OTHER               -> [retry |-> FALSE, sleep |-> 0, result |-> "Error"]

\* Mutant: every GithubException is retried after the sleep.
check_ci_hook_handler_retry_all(out) ==
    CASE out = "Present"     -> [retry |-> FALSE, sleep |-> 0, result |-> "Present"]
      [] out = "Not Present" -> [retry |-> FALSE, sleep |-> 0, result |-> "Not Present"]
      [] out \in {"RateLimitExceededException", "GithubException"} ->
             [retry |-> TRUE, sleep |-> RATE_LIMIT_SLEEP_MINUTES * 60, result |-> "Error"]
      [] OTHER               -> [retry |-> FALSE, sleep |-> 0, result |-> "Error"]

\* The body of the while loop of check_ci_hook: what it does with the
\* outcome of the try block (continue after a sleep, or break with a result).
check_ci_hook_handler(out) ==
    CASE out = "Present"     -> [retry |-> FALSE, sleep |-> 0, result |-> "Present"]
      [] out = "Not Present" -> [retry |-> FALSE, sleep |-> 0, result |-> "Not Present"]
      [] out = "RateLimitExceededException" ->
             [retry |-> TRUE, sleep |-> RATE_LIMIT_SLEEP_MINUTES * 60, result |-> "Error"]
      [] out = "GithubException" -> [retry |-> FALSE, sleep |-> 0, result |-> "Error"]
      [] OTHER               -> [retry |-> FALSE, sleep |-> 0, result |-> "Error"]

\* main, lines 232-238: the cell written for a result of check_ci_hook.
hook_pre_commit_cell(result) ==
    CASE result = "Present"     -> "True"
      [] result = "Not Present" -> "False"
      [] OTHER                  -> NA

hook_is_skipped(result) == result \notin {"Present", "Not Present"}

\* The value of a column the table does not have.
Absent == "absent"

\* existing_df: None, or the rows [html_url, pre_commit, stars] an earlier
\* run wrote (stars stands for any other column of that file).
HookExisting ==
    {[exists |-> FALSE, rows |-> <<>>],
     [exists |-> TRUE, rows |-> <<[html_url |-> GithubUrl, pre_commit |-> "False", stars |-> "5"]>>],
     [exists |-> TRUE, rows |-> <<[html_url |-> GithubGitUrl, pre_commit |-> "True", stars |-> "5"]>>],
     [exists |-> TRUE, rows |-> <<[html_url |-> GitlabUrl, pre_commit |-> NA, stars |-> "7"],
                                 [html_url |-> GithubUrl, pre_commit |-> "True", stars |-> NA]>>]}

\* The html_url values of the input, and their order as texts.
HookUrls ==
    <<MalformedUrl, GithubUserUrl, GithubUrl, GitlabUrl, GithubGitUrl, MissingUrl>>

hook_urls_of(rows) == {rows[k].html_url : k \in 1..Len(rows)}

\* Mutant: the existing output is left out of the merged table.
hook_outer_union_new_only(old, new) ==
    [k \in 1..Len(new) |->
        [html_url |-> new[k].html_url, in_input |-> TRUE, pre_commit |-> NA,
         stars |-> Absent, Language |-> new[k].Language]]

\* _outer_union_on_html_url(old_df, new_df), with the pre_commit column main
\* adds: one row per html_url of either table in the order of the labels,
\* the cells of old_df where it has a value, else those of new_df.
hook_outer_union(old, new) ==
    IF ~old.exists
    THEN [k \in 1..Len(new) |->
             [html_url |-> new[k].html_url, in_input |-> TRUE, pre_commit |-> NA,
              stars |-> Absent, Language |-> new[k].Language]]
    ELSE LET urls == SelectSeq(HookUrls, LAMBDA u : u \in hook_urls_of(old.rows)
                                                       \cup hook_urls_of(new))
             old_row(u) == CHOOSE r \in {old.rows[k] : k \in 1..Len(old.rows)} : r.html_url = u
             new_row(u) == CHOOSE r \in {new[k] : k \in 1..Len(new)} : r.html_url = u
         IN [k \in 1..Len(urls) |->
                [html_url   |-> urls[k],
                 in_input   |-> urls[k] \in hook_urls_of(new),
                 pre_commit |-> IF urls[k] \in hook_urls_of(old.rows)
                                THEN old_row(urls[k]).pre_commit ELSE NA,
                 stars      |-> IF urls[k] \in hook_urls_of(old.rows)
                                THEN old_row(urls[k]).stars ELSE NA,
                 Language   |-> IF urls[k] \in hook_urls_of(new)
                                THEN new_row(urls[k]).Language ELSE NA]]

HookAttempt(repo, out) == [ev |-> "attempt", repo |-> repo, out |-> out, secs |-> 0]
HookSleep(repo, secs)  == [ev |-> "sleep", repo |-> repo, out |-> "", secs |-> secs]

HookRateLimited(log) ==
    Cardinality({k \in 1..Len(log) : log[k].out = "RateLimitExceededException"})

HookInit ==
    /\ OthersIdle("hook")
    /\ hk_pc = "merge"
    /\ hk_existing \in HookExisting
    /\ \E n \in 1..MaxRows :
           hk_input \in [1..n -> [html_url : {HookUrls[k] : k \in 1..Len(HookUrls)},
                                  Language : {"Python"}]]
    /\ hk_existing.exists => Cardinality(hook_urls_of(hk_input)) = Len(hk_input)
    /\ hk_idx = 1
    /\ hk_df = <<>>
    /\ hk_result = <<>>
    /\ hk_log = <<>>
    /\ hk_skipped = <<>>
    /\ hk_out = NoFile

\* main, lines 204-217: the existing output and the input are merged.
hook_main_merge ==
    /\ hk_pc = "merge"
    /\ hk_df' = hook_outer_union(hk_existing, hk_input)
    /\ hk_result' = [i \in 1..Len(hk_df') |-> ""]
    /\ hk_log' = [i \in 1..Len(hk_df') |-> <<>>]
    /\ hk_pc' = "row"
    /\ UNCHANGED <<hk_existing, hk_input, hk_idx, hk_skipped, hk_out>>
    /\ OthersUnchanged("hook")

\* main, lines 226-238: record the result of check_ci_hook and go on.
hook_main_record(result) ==
    /\ hk_result' = [hk_result EXCEPT ![hk_idx] = result]
    /\ hk_df' = [hk_df EXCEPT ![hk_idx].pre_commit = hook_pre_commit_cell(result)]
    /\ hk_skipped' = IF hook_is_skipped(result)
                     THEN Append(hk_skipped, hk_df[hk_idx].html_url)
                     ELSE hk_skipped
    /\ hk_idx' = hk_idx + 1
    /\ hk_pc' = "row"

\* One iteration of the loop of main up to the first GitHub call: a row that
\* is not in the current input is left alone, a URL that does not parse
\* makes check_ci_hook return "Not Supported"; a ValueError of urlparse is
\* caught neither by check_ci_hook nor by main.
hook_main_row ==
    /\ hk_pc = "row"
    /\ hk_idx <= Len(hk_df)
    /\ LET row == hk_df[hk_idx] IN
       IF ~row.in_input
       THEN /\ hk_idx' = hk_idx + 1
            /\ UNCHANGED <<hk_pc, hk_df, hk_result, hk_skipped>>
       ELSE IF urlparse_raises(row.html_url)
       THEN /\ hk_pc' = "raised"
            /\ UNCHANGED <<hk_idx, hk_df, hk_result, hk_skipped>>
       ELSE IF ~hook_parse_github_owner_repo(row.html_url).ok
       THEN hook_main_record("Not Supported")
       ELSE /\ hk_pc' = "try"
            /\ UNCHANGED <<hk_idx, hk_df, hk_result, hk_skipped>>
    /\ UNCHANGED <<hk_existing, hk_input, hk_log, hk_out>>
    /\ OthersUnchanged("hook")

\* One pass through the while loop of check_ci_hook: the GitHub calls, then
\* the handler; on a result, the rest of the loop body of main.
check_ci_hook_try(out) ==
    /\ hk_pc = "try"
    /\ out = "RateLimitExceededException"
           => HookRateLimited(hk_log[hk_idx]) < MaxRateLimits
    /\ LET repo == hook_parse_github_owner_repo(hk_df[hk_idx].html_url)
           h    == check_ci_hook_handler(out)
           tried == Append(hk_log[hk_idx], HookAttempt(repo, out))
       IN  IF h.retry
           THEN /\ hk_log' = [hk_log EXCEPT ![hk_idx] =
                                 Append(tried, HookSleep(repo, h.sleep))]
                /\ UNCHANGED <<hk_pc, hk_idx, hk_df, hk_result, hk_skipped>>
           ELSE /\ hk_log' = [hk_log EXCEPT ![hk_idx] = tried]
                /\ hook_main_record(h.result)
    /\ UNCHANGED <<hk_existing, hk_input, hk_out>>
    /\ OthersUnchanged("hook")

\* main, lines 240-248: the table and the skipped URLs are written.
hook_main_save ==
    /\ hk_pc = "row"
    /\ hk_idx > Len(hk_df)
    /\ hk_out' = [written |-> TRUE, df |-> hk_df, skipped |-> hk_skipped]
    /\ hk_pc' = "done"
    /\ UNCHANGED <<hk_existing, hk_input, hk_idx, hk_df, hk_result, hk_log, hk_skipped>>
    /\ OthersUnchanged("hook")

HookNext ==
    \/ hook_main_merge
    \/ hook_main_row
    \/ \E out \in HookTryOutcomes : check_ci_hook_try(out)
    \/ hook_main_save

SpecHook == HookInit /\ [][HookNext]_vars

(***************************************************************************)
(* Claims about check_pre_commit_hooks.                                    *)
(***************************************************************************)
HookIsRateLimit(e) == e.ev = "attempt" /\ e.out = "RateLimitExceededException"
HookIsError(e) == e.ev = "attempt" /\ e.out \in {"GithubException", "ValueError"}

\* C1: in check_ci_hook every rate-limit error is followed by one sleep of
\* 20 minutes and then another attempt at the same repository, however many
\* rate-limit errors came before; "Present" and "Not Present" are returned
\* only from an attempt that ended without a rate-limit error.
C1_RateLimitRetried ==
    \A i \in 1..Len(hk_df) :
        LET log  == hk_log[i]
            repo == hook_parse_github_owner_repo(hk_df[i].html_url)
        IN  /\ \A k \in 1..Len(log) :
                   /\ log[k].repo = repo
                   /\ HookIsRateLimit(log[k]) =>
                          /\ k < Len(log)
                          /\ log[k + 1] = HookSleep(repo, 1200)
                          /\ IF k + 1 = Len(log)
                             THEN hk_pc = "try" /\ hk_idx = i /\ hk_result[i] = ""
                             ELSE log[k + 2].ev = "attempt"
                   /\ log[k].ev = "sleep" => k > 1 /\ HookIsRateLimit(log[k - 1])
            /\ hk_result[i] \in {"Present", "Not Present"} =>
                   /\ Len(log) > 0
                   /\ log[Len(log)] = HookAttempt(repo, hk_result[i])

\* C1 witness: a result returned after two rate-limit errors in a row.
C1_Witness ==
    \E i \in 1..Len(hk_df) :
        /\ hk_result[i] = "Present"
        /\ HookRateLimited(hk_log[i]) = 2
        /\ Len(hk_log[i]) = 5

\* C3: a GitHub error that is not a rate-limit error is never retried:
\* check_ci_hook returns "Error" after that attempt, main records pre_commit
\* as NA and lists the URL as skipped, and the loop is at a later row.
C3_ErrorNotRetried ==
    \A i \in 1..Len(hk_df) :
        \A k \in 1..Len(hk_log[i]) :
            HookIsError(hk_log[i][k]) =>
                /\ k = Len(hk_log[i])
                /\ hk_result[i] = "Error"
                /\ hk_df[i].pre_commit = NA
                /\ \E s \in 1..Len(hk_skipped) : hk_skipped[s] = hk_df[i].html_url
                /\ hk_idx > i
                /\ hk_pc \in {"row", "try", "done", "raised"}

\* C3 witness: the first row ended in a GitHub error, overwriting an earlier
\* value, and the second row was then checked and found the file.
C3_Witness ==
    /\ Len(hk_df) >= 2
    /\ Len(hk_log[1]) = 1
    /\ hk_log[1][1].out = "GithubException"
    /\ hk_df[1].html_url = GithubGitUrl
    /\ hk_df[1].pre_commit = NA
    /\ hk_result[2] = "Present"
    /\ hk_pc = "done"

HookIsGithubRepoUrl(url) ==
    url.host \in {"github.com", "www.github.com"} /\ Len(url.path) >= 2

\* C11: for every html_url that is not a github.com / www.github.com
\* repository URL, check_ci_hook returns "Not Supported" without a GitHub
\* call, and it never raises.
C11_NonGithubNotSupported ==
    /\ hk_pc # "raised"
    /\ \A i \in 1..Len(hk_df) :
           (i < hk_idx /\ hk_df[i].in_input /\ ~HookIsGithubRepoUrl(hk_df[i].html_url))
               => hk_result[i] = "Not Supported" /\ hk_log[i] = <<>>

(***************************************************************************)
(* ci_practices/continious_integration.py                                  *)
(***************************************************************************)
\* A missing (NaN or empty) html_url cell.
ci_is_missing(url) == url = MissingUrl

\* _parse_github_owner_repo: "owner/repo", or None.
ci_parse_github_owner_repo(html_url) ==
    IF ci_is_missing(html_url) THEN NoOwnerRepo
    ELSE IF html_url.host \notin {"github.com", "www.github.com"} THEN NoOwnerRepo
    ELSE IF Len(html_url.path) < 2 THEN NoOwnerRepo
    ELSE [ok    |-> TRUE,
          owner |-> html_url.path[1],
          repo  |-> IF html_url.path[2].ext = ".git"
                    THEN Seg(html_url.path[2].stem, "")
                    ELSE html_url.path[2]]

\* ci_checks, in the order main runs them; every check returns its name.
ci_checks == <<"github_actions", "travis", "circleci", "jenkins", "azure_pipelines">>

\* What the GitHub calls of one check_* end in: the file or folder is there,
\* it is not (404, or a listing without it), or the API quota is exhausted.
CiCheckOutcomes == {"found", "not_found", "rate_limited"}

\* What g.get_repo ends in.
CiRepoOutcomes == {"ok", "rate_limited", "error"}

\* check_github_actions .. check_azure_pipelines: every GithubException,
\* a rate-limit error included, is printed and None ("") is returned.
ci_check(k, out) == IF out = "found" THEN ci_checks[k] ELSE ""

\* Mutant: the loop over the checks has no break, the last tool found stays.
RECURSIVE ci_last_found(_, _)
ci_last_found(outs, k) ==
    IF k > Len(ci_checks) THEN ""
    ELSE IF ci_last_found(outs, k + 1) # "" THEN ci_last_found(outs, k + 1)
    ELSE ci_check(k, outs[k])

\* main, lines 292-297: the first check that returns a tool, from check k on.
RECURSIVE ci_first_found(_, _)
ci_first_found(outs, k) ==
    IF k > Len(ci_checks) THEN ""
    ELSE IF ci_check(k, outs[k]) # "" THEN ci_check(k, outs[k])
    ELSE ci_first_found(outs, k + 1)

\* The checks main runs for the outcomes outs: all up to the first hit.
RECURSIVE ci_checks_run(_, _)
ci_checks_run(outs, k) ==
    IF k > Len(ci_checks) THEN {}
    ELSE IF ci_check(k, outs[k]) # "" THEN {k}
    ELSE {k} \cup ci_checks_run(outs, k + 1)

\* handle_rate_limit_error: the seconds slept for a GithubException.
handle_rate_limit_error(out) == IF out = "rate_limited" THEN 20 * 60 ELSE 0

\* Mutant: the except branch of main does not write the table.
ci_to_csv_on_exception_missing(df, disk) == disk

\* main, line 319: the table is written in the except branch.
ci_to_csv_on_exception(df, disk) == [written |-> TRUE, df |-> df]

\* main, lines 311 and 323: the table is written.
ci_to_csv(df, disk) == [written |-> TRUE, df |-> df]

CiRows ==
    {[html_url |-> GithubUrl,    in_input |-> TRUE,
      continuous_integration |-> NA, ci_tool |-> NA],
     [html_url |-> GithubGitUrl, in_input |-> TRUE,
      continuous_integration |-> "True", ci_tool |-> "travis"],
     [html_url |-> GitlabUrl,    in_input |-> TRUE,
      continuous_integration |-> NA, ci_tool |-> NA],
     [html_url |-> MissingUrl,   in_input |-> TRUE,
      continuous_integration |-> NA, ci_tool |-> NA],
     [html_url |-> GithubUrl,    in_input |-> FALSE,
      continuous_integration |-> "False", ci_tool |-> ""]}

\* What is remembered of a row: how the loop body ended, whether a GitHub
\* call made for it failed on the exhausted quota, and the seconds slept.
CiHist(handled, quota, slept) ==
    [handled |-> handled, quota |-> quota, slept |-> slept]

CiInit ==
    /\ OthersIdle("ci")
    /\ ci_pc = "row"
    /\ ci_idx = 1
    /\ ci_df \in [1..MaxRows -> CiRows]
    /\ ci_hist = [i \in 1..MaxRows |-> CiHist("", FALSE, 0)]
    /\ ci_disk = NoFile

ci_set(df, i, value, tool) ==
    [df EXCEPT ![i].continuous_integration = value, ![i].ci_tool = tool]

\* main, lines 268-287: a row that is not in the current input is passed
\* over; a missing or non-GitHub URL is marked NA. Nothing is written.
ci_main_skip ==
    /\ ci_pc = "row"
    /\ ci_idx <= Len(ci_df)
    /\ LET row == ci_df[ci_idx] IN
       /\ ~row.in_input \/ ~ci_parse_github_owner_repo(row.html_url).ok
       /\ IF ~row.in_input
          THEN UNCHANGED <<ci_df, ci_hist>>
          ELSE /\ ci_df' = ci_set(ci_df, ci_idx, NA, NA)
               /\ ci_hist' = [ci_hist EXCEPT ![ci_idx] = CiHist("skipped", FALSE, 0)]
    /\ ci_idx' = ci_idx + 1
    /\ UNCHANGED <<ci_pc, ci_disk>>
    /\ OthersUnchanged("ci")

\* main, lines 289-311: get_repo succeeds, the checks run in order up to
\* the first hit, the cells are set and the table is written.
ci_main_checks(outs) ==
    /\ ci_pc = "row"
    /\ ci_idx <= Len(ci_df)
    /\ ci_df[ci_idx].in_input
    /\ ci_parse_github_owner_repo(ci_df[ci_idx].html_url).ok
    /\ LET ci_found == ci_first_found(outs, 1)
           quota    == \E k \in ci_checks_run(outs, 1) : outs[k] = "rate_limited"
           df       == IF ci_found # ""
                       THEN ci_set(ci_df, ci_idx, "True", ci_found)
                       ELSE ci_set(ci_df, ci_idx, "False", "")
       IN  /\ ci_df' = df
           /\ ci_hist' = [ci_hist EXCEPT ![ci_idx] = CiHist("checked", quota, 0)]
           /\ ci_disk' = ci_to_csv(df, ci_disk)
    /\ ci_idx' = ci_idx + 1
    /\ UNCHANGED ci_pc
    /\ OthersUnchanged("ci")

\* main, lines 291 and 313-320: get_repo raises a GithubException; after
\* handle_rate_limit_error the row is marked NA and the table is written.
ci_main_exception(out) ==
    /\ ci_pc = "row"
    /\ ci_idx <= Len(ci_df)
    /\ ci_df[ci_idx].in_input
    /\ ci_parse_github_owner_repo(ci_df[ci_idx].html_url).ok
    /\ out # "ok"
    /\ LET df == ci_set(ci_df, ci_idx, NA, NA) IN
       /\ ci_df' = df
       /\ ci_hist' = [ci_hist EXCEPT ![ci_idx] =
                         CiHist("exception", out = "rate_limited",
                                handle_rate_limit_error(out))]
       /\ ci_disk' = ci_to_csv_on_exception(df, ci_disk)
    /\ ci_idx' = ci_idx + 1
    /\ UNCHANGED ci_pc
    /\ OthersUnchanged("ci")

\* main, line 323: the final save.
ci_main_save ==
    /\ ci_pc = "row"
    /\ ci_idx > Len(ci_df)
    /\ ci_disk' = ci_to_csv(ci_df, ci_disk)
    /\ ci_pc' = "done"
    /\ UNCHANGED <<ci_idx, ci_df, ci_hist>>
    /\ OthersUnchanged("ci")

CiNext ==
    \/ ci_main_skip
    \/ \E outs \in [1..Len(ci_checks) -> CiCheckOutcomes] : ci_main_checks(outs)
    \/ \E out \in CiRepoOutcomes : ci_main_exception(out)
    \/ ci_main_save

SpecCI == CiInit /\ [][CiNext]_vars

(***************************************************************************)
(* Claims about continious_integration.                                    *)
(***************************************************************************)
\* C2: when a GitHub call made for a repository fails because the API quota
\* is exhausted, the script sleeps 20 minutes before it goes on, and the
\* request is issued again until it is answered, so that no repository ends
\* the run with continuous_integration False or NA after a call that failed
\* on the quota.
C2_QuotaRetried ==
    ci_pc = "done" =>
        \A i \in 1..Len(ci_df) :
            ci_hist[i].quota =>
                /\ ci_hist[i].slept >= 20 * 60
                /\ ci_df[i].continuous_integration \notin {NA, "False"}

\* C4: once a repository was processed, by its checks or by the except
\* branch, the table on disk holds its result before the loop is at a later
\* row, together with the results of every repository processed before it.
C4_PersistedBeforeNextRow ==
    \A i \in 1..Len(ci_df) :
        (i < ci_idx /\ ci_hist[i].handled \in {"checked", "exception"}) =>
            /\ ci_disk # NoFile
            /\ ci_disk.df[i].continuous_integration = ci_df[i].continuous_integration
            /\ ci_disk.df[i].ci_tool = ci_df[i].ci_tool
            /\ ci_hist[i].handled = "checked" =>
                   ci_df[i].continuous_integration \in {"True", "False"}
            /\ ci_hist[i].handled = "exception" =>
                   ci_df[i].continuous_integration = NA

\* C4 witness: the first repository ended in the except branch, its NA has
\* replaced the earlier value on disk, and the loop is at the second row.
C4_Witness ==
    /\ ci_pc = "row"
    /\ ci_idx = 2
    /\ ci_hist[1].handled = "exception"
    /\ ci_df[1].html_url = GithubGitUrl
    /\ ci_disk # NoFile
    /\ ci_disk.df[1].continuous_integration = NA

(***************************************************************************)
(* dependency_practices/cmake_crawler.py                                   *)
(***************************************************************************)
\* A find_package call as FIND_PACKAGE_REGEX matches it: the package name
\* (group 2), the version (group 3, "" when absent), REQUIRED (group 4).
FindPackage(name, version, required) ==
    [name |-> name, version |-> version, required |-> required]

\* A CMake file: whether open/read succeeds, its find_package calls line by
\* line, and whether it holds an add_test or gtest_discover_tests call.
CMakeFile(readable, calls, tests) ==
    [readable |-> readable, calls |-> calls, tests |-> tests]

\* A repository: whether git clone succeeds, the CMake files found in the
\* tree, and the names of the files and folders at its root.
Repo(clone_ok, files, root_files, root_dirs) ==
    [clone_ok |-> clone_ok, files |-> files,
     root_files |-> root_files, root_dirs |-> root_dirs]

CmRepos ==
    {Repo(FALSE, <<>>, {}, {}),
     Repo(TRUE, <<>>, {"Makefile", "README.md"}, {"src"}),
     Repo(TRUE, <<CMakeFile(TRUE, <<FindPackage("GTest", "", TRUE)>>, FALSE)>>,
          {"CMakeLists.txt"}, {"tests"}),
     Repo(TRUE, <<CMakeFile(TRUE, <<FindPackage("Boost", "1.70", TRUE),
                                    FindPackage("Catch2", "", FALSE),
                                    FindPackage("Boost", "1.70", TRUE)>>, TRUE)>>,
          {"CMakeLists.txt", "requirements.txt"}, {"src"}),
     Repo(TRUE, <<CMakeFile(TRUE, <<FindPackage("fmt", "9.1", FALSE)>>, FALSE),
                  CMakeFile(FALSE, <<>>, FALSE)>>,
          {"CMakeLists.txt"}, {"unittest"}),
     Repo(TRUE, <<CMakeFile(TRUE, <<FindPackage("fmt", "9.1", FALSE)>>, FALSE)>>,
          {"pyproject.toml", "DESCRIPTION"}, {})}

\* str.lower on the package names of the model.
cm_lower(name) ==
    CASE name = "GTest"  -> "gtest"
      [] name = "Catch2" -> "catch2"
      [] name = "Boost"  -> "boost"
      [] OTHER           -> name

\* clone_repo: the clone path, or None when git clone fails.
clone_repo(repo) == IF repo.clone_ok THEN "path" ELSE "None"

\* "test" in folder.lower(), for the folder names of the model.
cm_has_test(folder) == folder \in {"tests", "test", "unittest"}

\* collect_repo_structure.
collect_repo_structure(repo) ==
    [has_main_makefile    |-> "Makefile" \in repo.root_files,
     has_main_cmakelists  |-> "CMakeLists.txt" \in repo.root_files,
     has_pyproject_toml   |-> "pyproject.toml" \in repo.root_files,
     has_requirements_txt |-> "requirements.txt" \in repo.root_files,
     has_description      |-> "DESCRIPTION" \in repo.root_files,
     has_test_folders     |-> \E f \in repo.root_dirs : cm_has_test(f)]

\* The dep_info entries of the calls of one file, required or optional.
RECURSIVE cm_deps_of_calls(_, _)
cm_deps_of_calls(calls, required) ==
    IF calls = <<>> THEN <<>>
    ELSE LET c    == Head(calls)
             info == [name    |-> c.name,
                      version |-> IF c.version # "" THEN c.version ELSE "Any"]
         IN  IF c.required = required
             THEN <<info>> \o cm_deps_of_calls(Tail(calls), required)
             ELSE cm_deps_of_calls(Tail(calls), required)

RECURSIVE cm_deps_of_files(_, _)
cm_deps_of_files(files, required) ==
    IF files = <<>> THEN <<>>
    ELSE cm_deps_of_calls(Head(files).calls, required)
             \o cm_deps_of_files(Tail(files), required)

\* DataFrame.drop_duplicates: the first occurrence of every entry is kept.
RECURSIVE drop_duplicates(_)
drop_duplicates(deps) ==
    IF deps = <<>> THEN <<>>
    ELSE LET init == drop_duplicates(SubSeq(deps, 1, Len(deps) - 1))
             last == deps[Len(deps)]
         IN  IF \E k \in 1..Len(init) : init[k] = last THEN init
             ELSE Append(init, last)

cm_uses(files, lowered) ==
    \E f \in 1..Len(files) :
        \E k \in 1..Len(files[f].calls) : cm_lower(files[f].calls[k].name) = lowered

\* parse_cmake_files: the result object, or None when a file cannot be read.
parse_cmake_files(files) ==
    IF \E f \in 1..Len(files) : ~files[f].readable
    THEN [ok |-> FALSE]
    ELSE [ok               |-> TRUE,
          has_cmakelists   |-> files # <<>>,
          dependencies     |-> drop_duplicates(cm_deps_of_files(files, TRUE)),
          opt_dependencies |-> drop_duplicates(cm_deps_of_files(files, FALSE)),
          uses_gtest       |-> cm_uses(files, "gtest"),
          uses_catch2      |-> cm_uses(files, "catch2"),
          tests_found      |-> \E f \in 1..Len(files) : files[f].tests]

\* has_pinned_dependency.
has_pinned_dependency(dep_list) ==
    \E k \in 1..Len(dep_list) : ~(dep_list[k].version = "Any")

\* analyze_repo: find_cmake_files walks the clone path and raises TypeError
\* when clone_repo returned None; nothing in analyze_repo catches it.
analyze_repo(repo) ==
    IF clone_repo(repo) = "None"
    THEN [raised |-> TRUE, result_json |-> [ok |-> FALSE]]
    ELSE [raised         |-> FALSE,
          result_json    |-> parse_cmake_files(repo.files),
          repo_structure |-> collect_repo_structure(repo)]

\* process_csv_and_handle_repos, lines 358-377: the output row; json.loads
\* of the None of parse_cmake_files raises TypeError.
cm_output_row(row, analysis) ==
    LET data      == analysis.result_json
        structure == analysis.repo_structure
    IN  [doi                       |-> row.doi,
         has_root_cmakelists       |-> structure.has_main_cmakelists,
         has_root_makefile         |-> structure.has_main_makefile,
         has_pyproject_toml        |-> structure.has_pyproject_toml,
         has_requirements_txt      |-> structure.has_requirements_txt,
         has_description           |-> structure.has_description,
         has_test_folders          |-> structure.has_test_folders,
         has_cmakefiles            |-> data.has_cmakelists,
         has_cmake_dependencies    |-> data.dependencies # <<>>
                                           \/ data.opt_dependencies # <<>>,
         has_cmake_pinned_req_deps |-> has_pinned_dependency(data.opt_dependencies),
         has_cmake_pinned_opt_deps |-> has_pinned_dependency(data.dependencies),
         has_cmake_tests           |-> data.tests_found,
         has_gtest_dep             |-> data.uses_gtest,
         has_catch2_dep            |-> data.uses_catch2]

\* Whether the loop body raises for a row.
cm_row_raises(row) ==
    analyze_repo(row.repo).raised \/ ~analyze_repo(row.repo).result_json.ok

CmInit ==
    /\ OthersIdle("cmake")
    /\ cm_pc = "loop"
    /\ cm_idx = 1
    /\ cm_rows \in [1..MaxRows -> [doi : {"10.1/a", "10.1/b"}, repo : CmRepos]]
    /\ cm_results = <<>>
    /\ cm_out = NoFile

\* One iteration of the loop over the input rows that ends normally.
cm_analyze_row ==
    /\ cm_pc = "loop"
    /\ cm_idx <= Len(cm_rows)
    /\ ~cm_row_raises(cm_rows[cm_idx])
    /\ cm_results' = Append(cm_results,
                            cm_output_row(cm_rows[cm_idx], analyze_repo(cm_rows[cm_idx].repo)))
    /\ cm_idx' = cm_idx + 1
    /\ UNCHANGED <<cm_pc, cm_rows, cm_out>>
    /\ OthersUnchanged("cmake")

\* An iteration that raises: the only handler is the except Exception of
\* process_csv_and_handle_repos, outside the loop and after the writing of
\* the output file, so the function prints the error and returns.
cm_row_exception ==
    /\ cm_pc = "loop"
    /\ cm_idx <= Len(cm_rows)
    /\ cm_row_raises(cm_rows[cm_idx])
    /\ cm_pc' = "aborted"
    /\ UNCHANGED <<cm_idx, cm_rows, cm_results, cm_out>>
    /\ OthersUnchanged("cmake")

\* Lines 384-397: the output CSV is written once the loop is over.
cm_write_output ==
    /\ cm_pc = "loop"
    /\ cm_idx > Len(cm_rows)
    /\ cm_out' = [written |-> TRUE, rows |-> cm_results]
    /\ cm_pc' = "done"
    /\ UNCHANGED <<cm_idx, cm_rows, cm_results>>
    /\ OthersUnchanged("cmake")

CmNext ==
    \/ cm_analyze_row
    \/ cm_row_exception
    \/ cm_write_output

SpecCMake == CmInit /\ [][CmNext]_vars

(***************************************************************************)
(* Claims about cmake_crawler.                                             *)
(***************************************************************************)
\* C5: a repository that fails (git clone fails, or parse_cmake_files
\* returns None) does not abort the batch: when the function has returned,
\* the output CSV is written and holds one row for every input row whose
\* repository could be cloned and parsed.
C5_FailureDoesNotAbort ==
    cm_pc \in {"done", "aborted"} =>
        /\ cm_out # NoFile
        /\ Len(cm_out.rows) =
               Cardinality({i \in 1..Len(cm_rows) : ~cm_row_raises(cm_rows[i])})

(***************************************************************************)
(* documentation_practices/check_contributing_conduct.py                   *)
(***************************************************************************)
DEFAULT_BATCH_SIZE == 10
DEFAULT_MAX_THREADS == 5

None == "None"

\* The three paths tried for each of the two files.
contributing_paths == <<"CONTRIBUTING.md", ".github/CONTRIBUTING.md", "docs/CONTRIBUTING.md">>
conduct_paths == <<"CODE_OF_CONDUCT.md", ".github/CODE_OF_CONDUCT.md", "docs/CODE_OF_CONDUCT.md">>

\* What api.repos.get_content ends in: the file is there, HTTPError 404,
\* HTTPError with another status, or a RequestException that is no HTTPError.
ContentOutcomes == {"200", "404", "http_error", "network_error"}

\* check_repository_files: True, False, or the HTTPError raised again.
check_repository_files(out) ==
    CASE out = "200"           -> [raised |-> FALSE, value |-> TRUE]
      [] out = "404"           -> [raised |-> FALSE, value |-> FALSE]
      [] out = "http_error"    -> [raised |-> TRUE,  value |-> FALSE]
      [] out = "network_error" -> [raised |-> FALSE, value |-> FALSE]

\* any(check_repository_files(...) for path in paths), from path k on: the
\* value or the exception, the requests sent and the failures met.
RECURSIVE pool_any(_, _, _)
pool_any(paths, outs, k) ==
    IF k > Len(paths) \/ k > Len(outs)
    THEN [raised |-> FALSE, value |-> FALSE, calls |-> 0, failed |-> {}]
    ELSE LET r == check_repository_files(outs[k]) IN
         IF r.raised
         THEN [raised |-> TRUE, value |-> FALSE, calls |-> 1, failed |-> {"http"}]
         ELSE IF r.value
         THEN [raised |-> FALSE, value |-> TRUE, calls |-> 1, failed |-> {}]
         ELSE LET rest == pool_any(paths, outs, k + 1) IN
              [rest EXCEPT !.calls = @ + 1,
                           !.failed = @ \cup (IF outs[k] = "network_error"
                                              THEN {"network"} ELSE {})]

\* process_repository, lines 123-130: owner and repository name, or None.
\* Only the prefix "https://github.com/" is removed before the split.
pool_owner_repo(html_url) ==
    IF html_url = MissingUrl THEN NoOwnerRepo
    ELSE IF html_url.host \notin {"github.com", "www.github.com"} THEN NoOwnerRepo
    ELSE IF html_url.host = "github.com"
    THEN IF Len(html_url.path) < 2 THEN NoOwnerRepo
         ELSE [ok |-> TRUE, owner |-> html_url.path[1], repo |-> html_url.path[2]]
    ELSE [ok |-> TRUE, owner |-> Seg("https:", ""), repo |-> Seg("", "")]

PyBool(b) == IF b THEN "True" ELSE "False"

pd_notnull(cell) == cell # None

\* Mutant: the result is written to the first row, whatever the index.
handle_future_result_first_row(data_frame, index, result) ==
    [data_frame EXCEPT ![1].has_contributing = result[1],
                       ![1].has_code_of_conduct = result[2]]

\* _handle_future_result.
handle_future_result(data_frame, index, result) ==
    [data_frame EXCEPT ![index].has_contributing = result[1],
                       ![index].has_code_of_conduct = result[2]]

\* check_rate_limit: True when it slept because remaining was 0.
check_rate_limit(remaining) == remaining = 0

\* The rows of an input table: a repository not checked yet, a row that is
\* no GitHub URL and half filled, and a row filled by an earlier run.
PoolRows ==
    {[html_url |-> GithubUrl, has_contributing |-> None,   has_code_of_conduct |-> None],
     [html_url |-> GitlabUrl, has_contributing |-> None,   has_code_of_conduct |-> "True"],
     [html_url |-> GithubUrl, has_contributing |-> "True", has_code_of_conduct |-> "False"]}

PoolTask(st, has_contributing, result, failed) ==
    [st |-> st, has_contributing |-> has_contributing, result |-> result, failed |-> failed]

PoolInit ==
    /\ OthersIdle("pool")
    /\ pl_pc = "submit"
    /\ pl_idx = 1
    /\ pl_input \in [1..MaxRows -> PoolRows]
    /\ pl_df = pl_input
    /\ pl_futures = <<>>
    /\ pl_task = <<>>
    /\ pl_writes = {}
    /\ pl_calls = [rate_limit |-> 0, slept |-> FALSE]
    /\ pl_out = NoFile

\* One iteration of the loop of _submit_tasks: check_rate_limit asks the
\* rate-limit endpoint (and sleeps when remaining is 0), then the row is
\* passed over when both cells are filled, and submitted otherwise.
submit_tasks_row(remaining) ==
    /\ pl_pc = "submit"
    /\ pl_idx <= Len(pl_df)
    /\ pl_calls' = [rate_limit |-> pl_calls.rate_limit + 1,
                    slept      |-> check_rate_limit(remaining)]
    /\ IF /\ pd_notnull(pl_df[pl_idx].has_contributing)
          /\ pd_notnull(pl_df[pl_idx].has_code_of_conduct)
       THEN UNCHANGED <<pl_futures, pl_task>>
       ELSE /\ pl_futures' = Append(pl_futures, pl_idx)
            /\ pl_task' = Append(pl_task, PoolTask("queued", FALSE, <<None, None>>, {}))
    /\ pl_idx' = pl_idx + 1
    /\ pl_pc' = IF pl_idx = Len(pl_df) THEN "collect" ELSE "submit"
    /\ UNCHANGED <<pl_input, pl_df, pl_writes, pl_out>>
    /\ OthersUnchanged("pool")

PoolRunning == {f \in 1..Len(pl_task) : pl_task[f].st \in {"contributing", "conduct"}}

\* A pool worker takes the oldest queued task and starts process_repository
\* on the row it was submitted with: a URL that is no GitHub URL ends it.
pool_worker_start(f) ==
    /\ f \in 1..Len(pl_task)
    /\ pl_task[f].st = "queued"
    /\ \A g \in 1..(f - 1) : pl_task[g].st # "queued"
    /\ Cardinality(PoolRunning) < DEFAULT_MAX_THREADS
    /\ pl_task' = [pl_task EXCEPT ![f].st =
                      IF pool_owner_repo(pl_input[pl_futures[f]].html_url).ok
                      THEN "contributing" ELSE "done"]
    /\ UNCHANGED <<pl_pc, pl_idx, pl_input, pl_df, pl_futures, pl_writes, pl_calls, pl_out>>
    /\ OthersUnchanged("pool")

\* process_repository, lines 144-147: the CONTRIBUTING paths.
pool_worker_contributing(f, outs) ==
    /\ f \in 1..Len(pl_task)
    /\ pl_task[f].st = "contributing"
    /\ LET r == pool_any(contributing_paths, outs, 1) IN
       /\ pl_task' = [pl_task EXCEPT ![f] =
                         IF r.raised
                         THEN PoolTask("done", FALSE, <<None, None>>, r.failed)
                         ELSE PoolTask("conduct", r.value, <<None, None>>, r.failed)]
    /\ UNCHANGED <<pl_pc, pl_idx, pl_input, pl_df, pl_futures, pl_writes, pl_calls, pl_out>>
    /\ OthersUnchanged("pool")

\* process_repository, lines 148-158: the CODE_OF_CONDUCT paths and the
\* returned pair.
pool_worker_conduct(f, outs) ==
    /\ f \in 1..Len(pl_task)
    /\ pl_task[f].st = "conduct"
    /\ LET r == pool_any(conduct_paths, outs, 1)
           t == pl_task[f]
       IN
       /\ pl_task' = [pl_task EXCEPT ![f] =
                         IF r.raised
                         THEN PoolTask("done", FALSE, <<None, None>>,
                                       t.failed \cup r.failed)
                         ELSE PoolTask("done", FALSE,
                                       <<PyBool(t.has_contributing), PyBool(r.value)>>,
                                       t.failed \cup r.failed)]
    /\ UNCHANGED <<pl_pc, pl_idx, pl_input, pl_df, pl_futures, pl_writes, pl_calls, pl_out>>
    /\ OthersUnchanged("pool")

PoolApplied == {w.future : w \in pl_writes}

\* process_repositories, lines 292-302: as_completed yields a finished
\* future, its result is applied, every tenth result saves the table.
pool_collect(f) ==
    /\ pl_pc = "collect"
    /\ f \in 1..Len(pl_task)
    /\ pl_task[f].st = "done"
    /\ f \notin PoolApplied
    /\ LET index  == pl_futures[f]
           result == pl_task[f].result
           df     == handle_future_result(pl_df, index, result)
       IN  /\ pl_df' = df
           /\ pl_writes' = pl_writes \cup
                                {[future |-> f, index |-> index, result |-> result]}
           /\ pl_out' = IF (Cardinality(pl_writes) + 1) % DEFAULT_BATCH_SIZE = 0
                        THEN [written |-> TRUE, df |-> df]
                        ELSE pl_out
    /\ UNCHANGED <<pl_pc, pl_idx, pl_input, pl_futures, pl_task, pl_calls>>
    /\ OthersUnchanged("pool")

\* process_repositories, lines 304-305: the final save.
pool_final_save ==
    /\ pl_pc = "collect"
    /\ PoolApplied = 1..Len(pl_task)
    /\ pl_out' = [written |-> TRUE, df |-> pl_df]
    /\ pl_pc' = "done"
    /\ UNCHANGED <<pl_idx, pl_input, pl_df, pl_futures, pl_task, pl_writes, pl_calls>>
    /\ OthersUnchanged("pool")

\* The answers to the requests one any(...) sends: it stops at the first
\* request that finds the file or raises, so that one is the last.
PoolAnswers ==
    {outs \in UNION {[1..n -> ContentOutcomes] : n \in 1..Len(contributing_paths)} :
        /\ \A k \in 1..(Len(outs) - 1) : outs[k] \in {"404", "network_error"}
        /\ Len(outs) < Len(contributing_paths) => outs[Len(outs)] \in {"200", "http_error"}}

PoolNext ==
    \/ \E remaining \in {0, 1} : submit_tasks_row(remaining)
    \/ \E f \in 1..MaxRows : pool_worker_start(f)
    \/ \E f \in 1..MaxRows : \E outs \in PoolAnswers : pool_worker_contributing(f, outs)
    \/ \E f \in 1..MaxRows : \E outs \in PoolAnswers : pool_worker_conduct(f, outs)
    \/ \E f \in 1..MaxRows : pool_collect(f)
    \/ pool_final_save

SpecPool == PoolInit /\ [][PoolNext]_vars

(***************************************************************************)
(* Claims about check_contributing_conduct.                                *)
(***************************************************************************)
\* C6: under every interleaving of the pool workers, every submitted row
\* index is bound to one future only, a result is written only to the two
\* result cells of the row its future was submitted for, and no two futures
\* write the same cell: a row holds the result of its own future once that
\* is applied, and what the input held until then.
C6_OwnRowOnly ==
    /\ \A f, g \in 1..Len(pl_futures) : pl_futures[f] = pl_futures[g] => f = g
    /\ \A w \in pl_writes :
           /\ w.index = pl_futures[w.future]
           /\ w.result = pl_task[w.future].result
           /\ \A v \in pl_writes : v.index = w.index => v = w
    /\ \A i \in 1..Len(pl_df) :
           /\ pl_df[i].html_url = pl_input[i].html_url
           /\ IF \E w \in pl_writes : w.index = i
              THEN \A w \in pl_writes :
                       w.index = i =>
                           /\ pl_df[i].has_contributing = w.result[1]
                           /\ pl_df[i].has_code_of_conduct = w.result[2]
              ELSE pl_df[i] = pl_input[i]

\* C6 witness: the second future finished first and its result is applied
\* to its row while the worker of the first future is still at work.
C6_Witness ==
    /\ Len(pl_task) >= 2
    /\ pl_task[1].st = "conduct"
    /\ \E w \in pl_writes :
           /\ w.future = 2
           /\ w.result = <<"False", "True">>
           /\ pl_df[w.index].has_code_of_conduct = "True"

\* C7: a check that failed inside a worker, with an HTTP error other than
\* 404 or with a network error, yields the sentinel (None, None) for its
\* row, and the run is not aborted: at the end every submitted result is
\* applied and the output CSV is written.
C7_FailureYieldsSentinel ==
    /\ \A f \in 1..Len(pl_task) :
           (pl_task[f].st = "done" /\ pl_task[f].failed # {}) =>
               pl_task[f].result = <<None, None>>
    /\ pl_pc = "done" =>
           /\ pl_out # NoFile
           /\ {w.future : w \in pl_writes} = 1..Len(pl_futures)

\* C8: on a table whose result cells are all filled, the run sends no
\* request to GitHub, a rate-limit query included, submits no task and
\* leaves every result cell as it was.
C8_RerunSendsNothing ==
    (\A i \in 1..Len(pl_input) :
         /\ pd_notnull(pl_input[i].has_contributing)
         /\ pd_notnull(pl_input[i].has_code_of_conduct)) =>
        /\ pl_calls.rate_limit = 0
        /\ pl_futures = <<>>
        /\ pl_df = pl_input

\* ------------------------------------------------------------------
\* parse_readme/readme_content.py : fetch_readme_content
\* ------------------------------------------------------------------

\* A response of requests.get: an exception that is not an HTTPError, or a
\* status with the X-RateLimit-Remaining header ("absent" when not sent)
\* and a body.
ReadmeResponse(kind, status, remaining, body) ==
    [kind |-> kind, status |-> status, remaining |-> remaining, body |-> body]

ReadmeErrors ==
    { ReadmeResponse("http", 403, "0", <<>>),
      ReadmeResponse("http", 403, "5", <<>>),
      ReadmeResponse("http", 403, "absent", <<>>),
      ReadmeResponse("http", 404, "0", <<>>),
      ReadmeResponse("http", 429, "0", <<>>),
      ReadmeResponse("exception", 0, "absent", <<>>) }

\* The names of the files the listing of the repository root can hold.
ReadmeListings ==
    { <<>>, <<"setup.py">>, <<"README.md">>, <<"setup.py", "Readme">> }

ReadmeTexts == { <<"# A">>, <<"# B">> }

\* str.lower() on the file names of the listings.
rd_lower(name) ==
    CASE name = "README.md" -> "readme.md"
      [] name = "Readme" -> "readme"
      [] OTHER -> name

\* for content in contents: the first file named like a README.
rd_has_readme(contents) ==
    \E k \in 1..Len(contents) : rd_lower(contents[k]) \in {"readme.md", "readme", "readme.rst"}

\* response.raise_for_status()
rd_raises_http_error(res) == res.kind = "http" /\ res.status >= 400

readme_except_any_403(res) ==
    IF rd_raises_http_error(res) /\ res.status = 403
    THEN [retry |-> TRUE, sleep |-> 1200]
    ELSE [retry |-> FALSE, sleep |-> 0]

\* except HTTPError / except Exception: what follows a failed request.
readme_except(res) ==
    IF /\ rd_raises_http_error(res)
       /\ res.status = 403
       /\ res.remaining # "absent"
       /\ res.remaining = "0"
    THEN [retry |-> TRUE, sleep |-> 1200]
    ELSE [retry |-> FALSE, sleep |-> 0]

ReadmeGet(url, res) == [ev |-> "get", url |-> url, res |-> res]

ReadmeSleep(secs) == [ev |-> "sleep", secs |-> secs]

ReadmeRateLimited ==
    Cardinality({k \in 1..Len(rd_log) :
        rd_log[k].ev = "get" /\ readme_except(rd_log[k].res).retry})

ReadmeInit ==
    /\ OthersIdle("readme")
    /\ rd_pc = "contents"
    /\ rd_log = <<>>
    /\ rd_ret = ""

\* The failed request res has been logged in log: sleep and call again, or
\* log the error and return "".
readme_failed(log, res) ==
    LET h == readme_except(res) IN
    IF h.retry
    THEN /\ rd_log' = Append(log, ReadmeSleep(h.sleep))
         /\ rd_pc' = "contents"
         /\ UNCHANGED rd_ret
    ELSE /\ rd_log' = log
         /\ rd_pc' = "returned"
         /\ rd_ret' = ""

\* get(.../contents) and the loop over the listing up to the download.
readme_get_contents(res) ==
    /\ rd_pc = "contents"
    /\ readme_except(res).retry => ReadmeRateLimited < MaxRateLimits
    /\ LET log == Append(rd_log, ReadmeGet("contents", res)) IN
       IF res.kind = "http" /\ ~rd_raises_http_error(res)
       THEN /\ rd_log' = log
            /\ IF rd_has_readme(res.body)
               THEN rd_pc' = "download" /\ UNCHANGED rd_ret
               ELSE rd_pc' = "returned" /\ rd_ret' = ""
       ELSE readme_failed(log, res)
    /\ OthersUnchanged("readme")

\* get(content['download_url']) and the return of its text.
readme_get_download(res) ==
    /\ rd_pc = "download"
    /\ readme_except(res).retry => ReadmeRateLimited < MaxRateLimits
    /\ LET log == Append(rd_log, ReadmeGet("download", res)) IN
       IF res.kind = "http" /\ ~rd_raises_http_error(res)
       THEN /\ rd_log' = log
            /\ rd_pc' = "returned"
            /\ rd_ret' = res.body[1]
       ELSE readme_failed(log, res)
    /\ OthersUnchanged("readme")

ReadmeNext ==
    \/ \E res \in ReadmeErrors \cup
                 { ReadmeResponse("http", 200, "absent", l) : l \in ReadmeListings } :
          readme_get_contents(res)
    \/ \E res \in ReadmeErrors \cup
                 { ReadmeResponse("http", 200, "absent", t) : t \in ReadmeTexts } :
          readme_get_download(res)

SpecReadme == ReadmeInit /\ [][ReadmeNext]_vars

ReadmeIs403Zero(e) ==
    e.ev = "get" /\ e.res.kind = "http" /\ e.res.status = 403 /\ e.res.remaining = "0"

ReadmeIsOtherHttpError(e) ==
    e.ev = "get" /\ e.res.kind = "http" /\ e.res.status >= 400 /\ ~ReadmeIs403Zero(e)

\* C9: a request that fails with 403 and X-RateLimit-Remaining '0' is
\* followed by exactly one sleep of 1200 seconds and then by a new
\* attempt, and when that attempt succeeds the function returns the README
\* text it downloaded; a sleep happens only after such a failure; any other
\* HTTP error is the last thing the call does and it returns "".
C9_RateLimitSleepsOnceThenRetries ==
    /\ \A k \in 1..Len(rd_log) :
         ReadmeIs403Zero(rd_log[k]) =>
           /\ k < Len(rd_log)
           /\ rd_log[k + 1] = ReadmeSleep(1200)
           /\ IF k + 1 = Len(rd_log)
              THEN rd_pc = "contents"
              ELSE rd_log[k + 2].ev = "get" /\ rd_log[k + 2].url = "contents"
    /\ \A k \in 1..Len(rd_log) :
         rd_log[k].ev = "sleep" => k > 1 /\ ReadmeIs403Zero(rd_log[k - 1])
    /\ \A k \in 1..Len(rd_log) :
         ReadmeIsOtherHttpError(rd_log[k]) =>
           k = Len(rd_log) /\ rd_pc = "returned" /\ rd_ret = ""
    /\ (rd_pc = "returned" /\ rd_log # <<>>) =>
         LET last == rd_log[Len(rd_log)] IN
         (last.url = "download" /\ last.res.kind = "http" /\ last.res.status = 200)
            => rd_ret = last.res.body[1]

\* A rate-limited first attempt, one sleep, and a retry that returned the
\* README text.
C9_Witness ==
    /\ rd_pc = "returned"
    /\ Len(rd_log) = 4
    /\ ReadmeIs403Zero(rd_log[1])
    /\ rd_log[2] = ReadmeSleep(1200)
    /\ rd_log[3].url = "contents"
    /\ rd_log[4].url = "download"
    /\ rd_ret = "# B"

\* ------------------------------------------------------------------
\* documentation_practices/check_conducnt.py :
\* check_code_of_conduct_file / check_code_of_conduct_recursive
\* ------------------------------------------------------------------

CdItem(type, name) == [type |-> type, name |-> name]

\* The file names check_code_of_conduct_recursive looks for.
cd_conduct_names == {"CODE_OF_CONDUCT.rst", "CONDUCT.md", "CONDUCT.rst"}

\* Directory listings the API can answer with; at most one sub-directory
\* each, so the walk is a chain of at most MaxDepth directories.
CdListings ==
    { <<>>,
      <<CdItem("file", "README.md")>>,
      <<CdItem("file", "CONDUCT.md")>>,
      <<CdItem("dir", "docs"), CdItem("file", "CONDUCT.rst")>>,
      <<CdItem("file", "CODE_OF_CONDUCT.md"), CdItem("dir", "docs")>> }

cd_has_dir(listing) == \E k \in 1..Len(listing) : listing[k].type = "dir"

\* X-RateLimit-Reset as seconds relative to time.time().
CdReset(present, offset) == [present |-> present, offset |-> offset]

CdResponse(kind, status, remaining, reset, body) ==
    [kind |-> kind, status |-> status, remaining |-> remaining,
     reset |-> reset, body |-> body]

\* 403 answers: X-RateLimit-Remaining absent, '0', '5' or not an integer.
Cd403Responses ==
    { CdResponse("http", 403, "absent", CdReset(FALSE, 0), <<>>),
      CdResponse("http", 403, "0", CdReset(FALSE, 0), <<>>),
      CdResponse("http", 403, "0", CdReset(TRUE, 0 - 60), <<>>),
      CdResponse("http", 403, "0", CdReset(TRUE, 600), <<>>),
      CdResponse("http", 403, "5", CdReset(TRUE, 600), <<>>),
      CdResponse("http", 403, "many", CdReset(FALSE, 0), <<>>) }

\* Every other answer: a RequestException, an error status, a JSON body
\* that is not a list, or a listing.
CdOtherResponses ==
    { CdResponse("exception", 0, "absent", CdReset(FALSE, 0), <<>>),
      CdResponse("http", 404, "absent", CdReset(FALSE, 0), <<>>),
      CdResponse("http", 500, "absent", CdReset(FALSE, 0), <<>>),
      CdResponse("not_list", 200, "absent", CdReset(FALSE, 0), <<>>) }
    \cup { CdResponse("http", 200, "absent", CdReset(FALSE, 0), l) : l \in CdListings }

\* handle_rate_limit(response): the seconds slept (0: no sleep), or a
\* ValueError from int() of the header.
handle_rate_limit(response) ==
    IF response.status = 403 /\ response.remaining # "absent"
    THEN IF response.remaining \notin {"0", "5"}
         THEN [raises |-> TRUE, sleep |-> 0]
         ELSE IF response.remaining = "0"
              THEN LET reset_time == IF response.reset.present
                                     THEN response.reset.offset ELSE 1200
                       wait_time == IF reset_time >= 0 THEN reset_time ELSE 0
                   IN [raises |-> FALSE, sleep |-> wait_time + 1]
              ELSE [raises |-> FALSE, sleep |-> 0]
    ELSE IF response.status = 403
         THEN [raises |-> FALSE, sleep |-> 1200]
         ELSE [raises |-> FALSE, sleep |-> 0]

\* One invocation of check_code_of_conduct_recursive: its api_url (the
\* positions of the sub-directories from the root), the listing it iterates
\* over and the position of the item it is at.
CdFrame(url, items, pos) == [url |-> url, items |-> items, pos |-> pos]

CdPop(stack) == SubSeq(stack, 1, Len(stack) - 1)

CdTop(stack) == stack[Len(stack)]

RECURSIVE cd_for_items(_)
RECURSIVE cd_return(_, _)

\* return value v of the top invocation, handed to its caller.
cd_return(stack, v) ==
    IF stack = <<>>
    THEN [stack |-> <<>>, done |-> TRUE, ret |-> v]
    ELSE IF v
         THEN cd_return(CdPop(stack), TRUE)
         ELSE cd_for_items(stack)

\* for item in response.json(): from the item after pos of the top frame
\* up to a return or the next recursive call.
cd_for_items(stack) ==
    LET f == CdTop(stack)
        k == f.pos + 1
    IN IF k > Len(f.items)
       THEN cd_return(CdPop(stack), FALSE)
       ELSE IF f.items[k].type = "file" /\ f.items[k].name \in cd_conduct_names
            THEN cd_return(CdPop(stack), TRUE)
            ELSE IF f.items[k].type = "dir"
                 THEN [stack |-> Append(Append(CdPop(stack), CdFrame(f.url, f.items, k)),
                                        CdFrame(Append(f.url, k), <<>>, 0)),
                       done |-> FALSE, ret |-> FALSE]
                 ELSE cd_for_items(Append(CdPop(stack), CdFrame(f.url, f.items, k)))

CdGet(url, res) ==
    [ev |-> "get", url |-> url, status |-> res.status, remaining |-> res.remaining]

CdSleep(secs) == [ev |-> "sleep", secs |-> secs]

CdRateLimited ==
    Cardinality({k \in 1..Len(cd_log) : cd_log[k].ev = "get" /\ cd_log[k].status = 403})

\* check_code_of_conduct_file has built api_url for a GitHub repository and
\* calls check_code_of_conduct_recursive.
CdInit ==
    /\ OthersIdle("conduct")
    /\ cd_pc = "request"
    /\ cd_stack = <<CdFrame(<<>>, <<>>, 0)>>
    /\ cd_log = <<>>
    /\ cd_ret = FALSE

cd_set(r) ==
    /\ cd_stack' = r.stack
    /\ cd_pc' = IF r.done THEN "returned" ELSE "request"
    /\ cd_ret' = IF r.done THEN r.ret ELSE cd_ret

\* requests.get(api_url) answered with 403: handle_rate_limit, then the same
\* api_url again; a ValueError leaves through check_code_of_conduct_file.
cd_get_403(res) ==
    /\ cd_pc = "request"
    /\ CdRateLimited < MaxRateLimits
    /\ LET url == CdTop(cd_stack).url
           h == handle_rate_limit(res)
           log == Append(cd_log, CdGet(url, res))
       IN IF h.raises
          THEN /\ cd_log' = log
               /\ cd_set([stack |-> <<>>, done |-> TRUE, ret |-> FALSE])
          ELSE /\ cd_log' = IF h.sleep > 0 THEN Append(log, CdSleep(h.sleep)) ELSE log
               /\ UNCHANGED <<cd_pc, cd_stack, cd_ret>>
    /\ OthersUnchanged("conduct")

\* requests.get(api_url) answered with anything else, up to the next
\* request or the return.
cd_get(res) ==
    /\ cd_pc = "request"
    /\ cd_has_dir(res.body) => Len(cd_stack) < MaxDepth
    /\ LET f == CdTop(cd_stack) IN
       /\ cd_log' = Append(cd_log, CdGet(f.url, res))
       /\ IF res.kind = "http" /\ res.status = 200
          THEN cd_set(cd_for_items(Append(CdPop(cd_stack), CdFrame(f.url, res.body, 0))))
          ELSE cd_set(cd_return(CdPop(cd_stack), FALSE))
    /\ OthersUnchanged("conduct")

CdNext ==
    \/ \E res \in Cd403Responses : cd_get_403(res)
    \/ \E res \in CdOtherResponses : cd_get(res)

SpecConduct == CdInit /\ [][CdNext]_vars

\* C10: every request that follows a 403 answer is preceded by a sleep,
\* whatever the X-RateLimit-Remaining header of the 403 was.
C10_SleepBeforeEveryRetry ==
    \A k \in 1..Len(cd_log) :
        (cd_log[k].ev = "get" /\ cd_log[k].status = 403 /\ k < Len(cd_log))
            => cd_log[k + 1].ev = "sleep"

\* ------------------------------------------------------------------
\* documentation_practices/comment_at_start.py : analyze_repositories
\* ------------------------------------------------------------------

\* A percentage commented / total * 100.0 kept as the fraction
\* <<100 * commented, total>>; <<>> is None.
CommentPct(commented, total) == <<100 * commented, total>>

\* determine_comment_category with the boundaries on the wrong side.
determine_comment_category_closed_below(percentage) ==
    LET num == percentage[1]
        den == percentage[2]
    IN IF num >= 75 * den THEN "most"
       ELSE IF 50 * den <= num THEN "more"
       ELSE IF 25 * den <= num THEN "some"
       ELSE "none"

\* determine_comment_category(percentage). The float (commented / total) *
\* 100.0 compares with 75, 50 and 25 as the exact fraction does: the three
\* boundaries are the quotients 3/4, 1/2 and 1/4, which floats hold exactly,
\* and any other quotient of file counts is further from them than one
\* rounding step.
determine_comment_category(percentage) ==
    LET num == percentage[1]
        den == percentage[2]
    IN IF num > 75 * den THEN "most"
       ELSE IF 50 * den < num /\ num <= 75 * den THEN "more"
       ELSE IF 25 * den < num /\ num <= 50 * den THEN "some"
       ELSE "none"

\* What GitHub answers for one repository: core.remaining of the rate-limit
\* query, the language of the repository ("None" when API.repos.get failed
\* or the repository has none), and for each source file found whether its
\* first line is a comment.
CommentOutcomes ==
    [remaining : {0, 1}, language : {"Java", "None"}, files : {<<>>}]
    \cup [remaining : {0, 1}, language : {"Python"},
          files : { <<>>, <<TRUE>>, <<FALSE>>, <<TRUE, FALSE>>,
                    <<TRUE, TRUE, FALSE, TRUE>>, <<TRUE, FALSE, FALSE, FALSE>>,
                    <<TRUE, TRUE, FALSE>>, <<FALSE, FALSE, TRUE>> }]

\* process_repository(repo_url, headers): the returned pair, the seconds
\* slept by _sleep_if_rate_limited, or the AttributeError of
\* repo_url.startswith on a cell that is not a string.
comment_process_repository(repo_url, out) ==
    LET none == [state |-> "returned", pct |-> <<>>, cat |-> "None", slept |-> 0, called |-> FALSE]
        slept == IF out.remaining = 0 THEN 15 * 60 ELSE 0
        total_files == Len(out.files)
        commented_files == Cardinality({k \in 1..Len(out.files) : out.files[k]})
        comment_percentage == CommentPct(commented_files, total_files)
    IN IF repo_url = MissingUrl
       THEN [none EXCEPT !.state = "raised"]
       ELSE IF repo_url.host # "github.com" THEN none
       ELSE IF Len(repo_url.path) < 2 THEN none
       ELSE IF out.language \notin {"Python", "R", "C++"}
       THEN [none EXCEPT !.slept = slept, !.called = TRUE]
       ELSE IF total_files = 0
       THEN [state |-> "returned", pct |-> CommentPct(0, 1), cat |-> "none",
             slept |-> slept, called |-> TRUE]
       ELSE [state |-> "returned", pct |-> comment_percentage,
             cat |-> determine_comment_category(comment_percentage),
             slept |-> slept, called |-> TRUE]

\* The rows of the input table; comment_percentage and comment_category are
\* the defaults of a first run or the values of an earlier one.
CommentRows ==
    {[html_url |-> GithubUrl,     comment_percentage |-> CommentPct(0, 1), comment_category |-> ""],
     [html_url |-> GitlabUrl,     comment_percentage |-> CommentPct(4, 5), comment_category |-> "most"],
     [html_url |-> GithubGitUrl,  comment_percentage |-> CommentPct(0, 1), comment_category |-> ""],
     [html_url |-> GithubUserUrl, comment_percentage |-> CommentPct(0, 1), comment_category |-> ""],
     [html_url |-> MissingUrl,    comment_percentage |-> CommentPct(0, 1), comment_category |-> ""]}

CommentInit ==
    /\ OthersIdle("comment")
    /\ cs_pc = "row"
    /\ cs_idx = 1
    /\ cs_df \in [1..MaxRows -> CommentRows]
    /\ cs_ret = [i \in 1..MaxRows |->
                   [state |-> "not_called", pct |-> <<>>, cat |-> "None", slept |-> 0, called |-> FALSE]]
    /\ cs_disk = NoFile

\* _process_row for the row at cs_idx: process_repository, the two cells,
\* the interim save. An exception _process_row does not catch ends the run.
comment_process_row(out) ==
    /\ cs_pc = "row"
    /\ cs_idx <= Len(cs_df)
    /\ LET r == comment_process_repository(cs_df[cs_idx].html_url, out)
           df == IF r.pct # <<>> /\ r.cat # "None"
                 THEN [cs_df EXCEPT ![cs_idx].comment_percentage = r.pct,
                                    ![cs_idx].comment_category = r.cat]
                 ELSE cs_df
       IN /\ ~r.called => out = [remaining |-> 1, language |-> "None", files |-> <<>>]
          /\ cs_ret' = [cs_ret EXCEPT ![cs_idx] = r]
          /\ IF r.state = "raised"
             THEN /\ cs_pc' = "raised"
                  /\ UNCHANGED <<cs_idx, cs_df, cs_disk>>
             ELSE /\ cs_df' = df
                  /\ cs_disk' = [written |-> TRUE, df |-> df]
                  /\ cs_idx' = cs_idx + 1
                  /\ UNCHANGED cs_pc
    /\ OthersUnchanged("comment")

\* analyze_repositories after the loop: the final save.
comment_final_save ==
    /\ cs_pc = "row"
    /\ cs_idx > Len(cs_df)
    /\ cs_disk' = [written |-> TRUE, df |-> cs_df]
    /\ cs_pc' = "done"
    /\ UNCHANGED <<cs_idx, cs_df, cs_ret>>
    /\ OthersUnchanged("comment")

CommentNext ==
    \/ \E out \in CommentOutcomes : comment_process_row(out)
    \/ comment_final_save

SpecComment == CommentInit /\ [][CommentNext]_vars

\* A row whose html_url is not a GitHub URL.
CommentIsNonGithub(url) == url.host \notin {"github.com", "www.github.com"}

\* C12: for a row whose html_url is not a GitHub URL (a missing or
\* non-string cell included) process_repository returns (None, None) and
\* does not raise, the row keeps its comment_percentage and
\* comment_category, and the loop goes on to the next row.
C12_NonGithubRowSkipped ==
    \A i \in 1..Len(cs_df) :
        (CommentIsNonGithub(cs_df[i].html_url) /\ cs_ret[i].state # "not_called")
            => /\ cs_ret[i].state = "returned"
               /\ cs_ret[i].pct = <<>> /\ cs_ret[i].cat = "None"
               /\ cs_idx > i
               /\ cs_pc # "raised"

\* ------------------------------------------------------------------
\* ci_practices/add_ci_test_rule.py : process_csv
\* ------------------------------------------------------------------

\* normalize_repo_url(raw_url) is not None: a string with a github.com host
\* and at least owner and repo in its path.
normalize_repo_url_ok(raw_url) ==
    /\ raw_url # MissingUrl
    /\ raw_url.host \in {"github.com", "www.github.com"}
    /\ Len(raw_url.path) >= 2

TestRuleInit ==
    /\ OthersIdle("testrule")
    /\ tr_pc = "auth"
    /\ tr_token \in {"ghp_token", ""}
    /\ tr_idx = 1
    /\ tr_df \in [1..MaxRows ->
                   [html_url : {GithubUrl, GitlabUrl, MissingUrl},
                    Language : {"Python", "Java"},
                    continuous_integration : BOOLEAN,
                    ci_tool_detected : {NA}, test_rule_in_ci : {NA}]]
    /\ tr_calls = [i \in 1..MaxRows |-> {}]
    /\ tr_out = NoFile

\* load_token_from_env and the choice of the client: Github(token), or the
\* anonymous Github() after a warning.
test_rule_auth ==
    /\ tr_pc = "auth"
    /\ tr_pc' = "row"
    /\ UNCHANGED <<tr_token, tr_idx, tr_df, tr_calls, tr_out>>
    /\ OthersUnchanged("testrule")

\* One iteration of the loop of process_csv. repo is the outcome of
\* gh.get_repo, tools the CI tools detected, found whether a YAML file of
\* them names a test library.
test_rule_row(repo, tools, found) ==
    /\ tr_pc = "row"
    /\ tr_idx <= Len(tr_df)
    /\ LET row == tr_df[tr_idx]
           skip == \/ ~normalize_repo_url_ok(row.html_url)
                   \/ row.Language \notin {"Python", "R", "C++"}
                   \/ ~row.continuous_integration
       IN IF skip
          THEN /\ repo = "GithubException" /\ tools = <<>> /\ ~found
               /\ UNCHANGED <<tr_df, tr_calls>>
          ELSE IF repo = "GithubException"
          THEN /\ tools = <<>> /\ ~found
               /\ tr_calls' = [tr_calls EXCEPT ![tr_idx] = {"get_rate_limit", "get_repo"}]
               /\ UNCHANGED tr_df
          ELSE /\ found => tools # <<>>
               /\ tr_calls' = [tr_calls EXCEPT ![tr_idx] =
                                  {"get_rate_limit", "get_repo", "get_contents"}]
               /\ tr_df' = [tr_df EXCEPT
                              ![tr_idx].ci_tool_detected = IF tools # <<>> THEN tools[1] ELSE NA,
                              ![tr_idx].test_rule_in_ci =
                                  IF tools # <<>> /\ found THEN "True" ELSE "False"]
    /\ tr_idx' = tr_idx + 1
    /\ UNCHANGED <<tr_pc, tr_token, tr_out>>
    /\ OthersUnchanged("testrule")

\* df.to_csv(output_csv) after the loop.
test_rule_write ==
    /\ tr_pc = "row"
    /\ tr_idx > Len(tr_df)
    /\ tr_out' = [written |-> TRUE, df |-> tr_df]
    /\ tr_pc' = "done"
    /\ UNCHANGED <<tr_token, tr_idx, tr_df, tr_calls>>
    /\ OthersUnchanged("testrule")

TestRuleNext ==
    \/ test_rule_auth
    \/ \E repo \in {"ok", "GithubException"}, tools \in {<<>>, <<"github_actions">>},
          found \in BOOLEAN : test_rule_row(repo, tools, found)
    \/ test_rule_write

SpecTestRule == TestRuleInit /\ [][TestRuleNext]_vars

\* C13: when GITHUB_TOKEN is missing process_csv ends before any row is
\* processed: no GitHub request is made for any row and no result column of
\* any row is set.
C13_MissingTokenTerminates ==
    tr_token = "" =>
        \A i \in 1..Len(tr_df) :
            /\ tr_calls[i] = {}
            /\ tr_df[i].ci_tool_detected = NA
            /\ tr_df[i].test_rule_in_ci = NA

\* ------------------------------------------------------------------
\* Functions called on their own.
\* ------------------------------------------------------------------

\* readme_content.get_owner_repo_from_url(url), with is_github_url. A name
\* is the sequence of its pieces, so that '.git' can stand anywhere in it;
\* <<>> is (None, None).
get_owner_repo_from_url(url) ==
    LET replace_git(name) == SelectSeq(name, LAMBDA piece : piece # ".git")
    IN IF url.prefix # "https://github.com/" THEN <<>>
       ELSE IF 3 + Len(url.segments) >= 5
            THEN <<url.segments[1], replace_git(url.segments[2])>>
            ELSE <<>>

\* A line of a CMake file: the command and the words between its
\* parentheses.
CMakeLine(cmd, args) == [cmd |-> cmd, args |-> args]

\* Mutant: REQUIRED is never recognised.
find_package_match_never_required(line) ==
    IF line.cmd \notin {"find_package", "FIND_PACKAGE"} \/ line.args = <<>>
    THEN <<>>
    ELSE <<FindPackage(line.args[1], "", FALSE)>>

\* re.search(FIND_PACKAGE_REGEX, line): no match, or the groups 2, 3 and 4
\* (name, version right after the name, REQUIRED right after those).
find_package_match(line) ==
    IF line.cmd \notin {"find_package", "FIND_PACKAGE"} \/ line.args = <<>>
    THEN <<>>
    ELSE LET has_version == Len(line.args) >= 2 /\ line.args[2] \in {"1.70"}
             next == IF has_version THEN 3 ELSE 2
         IN <<FindPackage(line.args[1],
                          IF has_version THEN line.args[2] ELSE "",
                          Len(line.args) >= next /\ line.args[next] = "REQUIRED")>>

\* The file as parse_cmake_files reads it: its find_package matches line by
\* line, and whether ADD_TEST_REGEX matches.
cm_file_of_lines(lines) ==
    LET RECURSIVE matches(_)
        matches(k) == IF k > Len(lines) THEN <<>>
                      ELSE find_package_match(lines[k]) \o matches(k + 1)
    IN CMakeFile(TRUE, matches(1),
                 \E k \in 1..Len(lines) : lines[k].cmd = "add_test" /\ lines[k].args # <<>>)

\* str.lower / re.IGNORECASE on the characters of the model.
kw_lower(text) == [k \in 1..Len(text) |-> IF text[k] = "A" THEN "a" ELSE text[k]]

\* Mutant: the keyword is searched without the word boundaries.
search_keywords_substring(text, keyword_list) ==
    SelectSeq(keyword_list,
              LAMBDA keyword :
                  \E i \in 1..Len(text) :
                      /\ i + Len(keyword) - 1 <= Len(text)
                      /\ kw_lower(SubSeq(text, i, i + Len(keyword) - 1)) = kw_lower(keyword))

\* keywords_eval_readme.search_keywords(text, keyword_list):
\* re.search(r"\b" + re.escape(keyword) + r"\b", text, re.IGNORECASE) for
\* each keyword in turn. \b holds at a position where exactly one of the two
\* neighbouring characters is a word character (letter, digit, '_').
search_keywords(text, keyword_list) ==
    LET is_word(k) == k >= 1 /\ k <= Len(text) /\ text[k] \in {"a", "b", "A", "_"}
        boundary(k) == is_word(k - 1) # is_word(k)
    IN SelectSeq(keyword_list,
                 LAMBDA keyword :
                     \E i \in 1..Len(text) :
                         /\ i + Len(keyword) - 1 <= Len(text)
                         /\ boundary(i)
                         /\ kw_lower(SubSeq(text, i, i + Len(keyword) - 1)) = kw_lower(keyword)
                         /\ boundary(i + Len(keyword)))

\* dlr_app_classes.classify_contributor_count(count). int(float(count))
\* raises ValueError or TypeError for a missing or non-numeric value, and
\* OverflowError, which is not caught, for an infinite float or an integer
\* beyond the range of float. <<>> is None.
classify_contributor_count(count) ==
    IF count.kind \in {"nan", "text", "None"} THEN [raises |-> FALSE, class |-> <<>>]
    ELSE IF count.kind \in {"inf", "huge"} THEN [raises |-> TRUE, class |-> <<>>]
    ELSE IF count.value = 1 THEN [raises |-> FALSE, class |-> <<0>>]
    ELSE IF 1 < count.value /\ count.value <= 3 THEN [raises |-> FALSE, class |-> <<1>>]
    ELSE IF count.value >= 4 THEN [raises |-> FALSE, class |-> <<2>>]
    ELSE [raises |-> FALSE, class |-> <<>>]

\* add_ci_rules.py: the libraries and linters looked for, by language.
testing_libraries ==
    [python |-> {"unittest", "pytest", "nose"}, r |-> {"testthat"}, cpp |-> {"gtest"}]
linters ==
    [python |-> {"pylint", "flake8", "pycodestyle"}, r |-> {"lintr"}, cpp |-> {"cpplint"}]

\* check_testing_libraries and check_linters; a file content is the set of
\* the whole words in it.
check_testing_libraries(file_content, language) ==
    \E library \in testing_libraries[language] : library \in file_content
check_linters(file_content, language) ==
    \E linter \in linters[language] : linter \in file_content

\* The two cells after one file: each is written only while it is NaN.
ci_rules_scan(cells, file_content) ==
    [add_test_rule |-> IF cells.add_test_rule = NA
                       THEN PyBool(check_testing_libraries(file_content, "python"))
                       ELSE cells.add_test_rule,
     add_lint_rule |-> IF cells.add_lint_rule = NA
                       THEN PyBool(check_linters(file_content, "python"))
                       ELSE cells.add_lint_rule]

RECURSIVE ci_rules_scan_all(_, _, _)
ci_rules_scan_all(cells, contents, k) ==
    IF k > Len(contents) THEN cells
    ELSE ci_rules_scan_all(IF contents[k].yaml THEN ci_rules_scan(cells, contents[k].words)
                           ELSE cells,
                           contents, k + 1)

\* add_ci_rules.process_repository: the files under .github in the order
\* get_all_files returns them, then .travis.yml when there is one.
ci_rules_process_repository(contents, travis) ==
    LET cells == ci_rules_scan_all([add_test_rule |-> NA, add_lint_rule |-> NA], contents, 1)
    IN IF travis.found THEN ci_rules_scan(cells, travis.words) ELSE cells

\* check_test_dependency.py. A Language cell is the sequence of its
\* characters; LangNone is None.
LangPython == <<"P", "y", "t", "h", "o", "n">>
LangR      == <<"R">>
LangCpp    == <<"C", "+", "+">>
LangNone   == <<>>

\* The Language cells of the input CSV (read with dtype=str and
\* keep_default_na=False, so an empty cell is the empty string).
TdLanguages ==
    {<<>>, <<" ">>, LangPython, <<"p", "y", "t", "h", "o", "n", "3">>, LangR, <<"r">>, LangCpp,
     <<"c", "p", "p">>, <<"C">>, <<"J", "a", "v", "a">>, <<"R", "u", "b", "y">>,
     <<"R", "u", "s", "t">>, <<" ", "G", "o">>}

\* str.lower() on the letters that occur in the names of the model.
td_lower(text) ==
    [k \in 1..Len(text) |->
        CASE text[k] = "P" -> "p" [] text[k] = "R" -> "r" [] text[k] = "C" -> "c"
          [] text[k] = "J" -> "j" [] text[k] = "G" -> "g" [] text[k] = "T" -> "t"
          [] OTHER -> text[k]]

\* str.strip()
RECURSIVE td_strip(_)
td_strip(text) ==
    IF text = <<>> THEN text
    ELSE IF Head(text) = " " THEN td_strip(Tail(text))
    ELSE IF text[Len(text)] = " " THEN td_strip(SubSeq(text, 1, Len(text) - 1))
    ELSE text

\* text.startswith(prefix)
td_startswith(text, prefix) ==
    Len(text) >= Len(prefix) /\ SubSeq(text, 1, Len(prefix)) = prefix

\* infer_language_if_needed(g, repo, existing_lang); top is what the
\* languages of the repository map to when GitHub is asked.
\* normalized.upper() in {"C++", "CPP"} is the same as the lowered name
\* being "c++" or "cpp".
infer_language_if_needed(existing_lang, top) ==
    LET normalized == td_strip(existing_lang) IN
    IF normalized # <<>>
    THEN IF td_startswith(td_lower(normalized), td_lower(LangPython)) THEN LangPython
         ELSE IF td_lower(normalized) \in {<<"c", "+", "+">>, <<"c", "p", "p">>}
                 \/ \E k \in 0..(Len(normalized) - 3) :
                        SubSeq(td_lower(normalized), k + 1, k + 3) = <<"c", "+", "+">>
            THEN LangCpp
         ELSE IF td_startswith(td_lower(normalized), <<"r">>) THEN LangR
         ELSE normalized
    ELSE top

\* match_dependency_files_for_language on file names at the root.
match_dependency_files_for_language(file_paths, language) ==
    IF language = LangPython
    THEN file_paths \cap {"requirements.txt", "pyproject.toml", "poetry.lock", "renv.lock"}
    ELSE IF language = LangR THEN file_paths \cap {"DESCRIPTION", "renv.lock"}
    ELSE IF language = LangCpp THEN file_paths \cap {"CMakeLists.txt", "Makefile"}
    ELSE {}

\* process_repo for a GitHub URL whose get_repo succeeds: the returned
\* tuple, and whether the files of the repository were listed.
td_process_repo(csv_language, out) ==
    LET language  == infer_language_if_needed(csv_language, out.top)
        dep_files == match_dependency_files_for_language(out.paths, language)
        terms     == IF language = LangPython THEN {"pytest", "unittest", "nose", "unnittest"}
                     ELSE IF language = LangR THEN {"testthat", "tinytest"}
                     ELSE {"gtest", "ctest", "catch2"}
        found     == IF dep_files = {} THEN {} ELSE terms \cap out.texts
    IN IF language \notin {LangPython, LangR, LangCpp}
       THEN [listed |-> FALSE, language |-> language,
             ret |-> <<FALSE, {}, FALSE, {}>>]
       ELSE [listed |-> TRUE, language |-> language,
             ret |-> <<dep_files # {}, dep_files, found # {}, found>>]

\* testing_practices/test_folder.py. The entries at the root of a
\* repository, names as sequences of characters.
TfItems ==
    {[type |-> "dir",  name |-> <<"t", "e", "s", "t", "s">>],
     [type |-> "dir",  name |-> <<"T", "e", "s", "t", "s">>],
     [type |-> "dir",  name |-> <<"T", "E", "S", "T">>],
     [type |-> "dir",  name |-> <<"t", "e", "s", "t", "_", "b">>],
     [type |-> "dir",  name |-> <<"T", "e", "s", "t", "_", "a">>],
     [type |-> "dir",  name |-> <<"t", "e", "s", "t", "a">>],
     [type |-> "dir",  name |-> <<"s", "r", "c">>],
     [type |-> "file", name |-> <<"t", "e", "s", "t">>]}

\* The code points of the characters of lowered names, as far as their
\* order goes.
tf_ord(c) ==
    CASE c = "_" -> 95 [] c = "a" -> 97 [] c = "b" -> 98 [] c = "c" -> 99
      [] c = "e" -> 101 [] c = "r" -> 114 [] c = "s" -> 115 [] c = "t" -> 116
      [] c = "E" -> 69 [] c = "S" -> 83 [] c = "T" -> 84

\* a < b for two strings.
tf_str_less(a, b) ==
    \/ \E i \in 1..Len(a) : /\ i <= Len(b)
                             /\ SubSeq(a, 1, i - 1) = SubSeq(b, 1, i - 1)
                             /\ tf_ord(a[i]) < tf_ord(b[i])
    \/ Len(a) < Len(b) /\ a = SubSeq(b, 1, Len(a))

\* _candidate_root_test_dirs: the root directories whose lowered name
\* starts with 'tests' or 'test', in the order of the listing.
RECURSIVE candidate_root_test_dirs(_)
candidate_root_test_dirs(contents) ==
    IF contents = <<>> THEN <<>>
    ELSE LET item == Head(contents)
             name == td_lower(item.name)
         IN (IF item.type = "dir"
                /\ (td_startswith(name, <<"t", "e", "s", "t", "s">>)
                    \/ td_startswith(name, <<"t", "e", "s", "t">>))
             THEN <<item.name>> ELSE <<>>)
            \o candidate_root_test_dirs(Tail(contents))

\* The sort key (-len(n), n.lower()) of find_main_test_folder: whether a
\* sorts before b.
tf_key_less(a, b) ==
    \/ Len(a) > Len(b)
    \/ Len(a) = Len(b) /\ tf_str_less(td_lower(a), td_lower(b))

\* find_main_test_folder without the sort: the first candidate is returned.
find_main_test_folder_unsorted(raises, contents) ==
    IF raises THEN LangNone
    ELSE LET candidates == candidate_root_test_dirs(contents)
             exact(x)   == {k \in 1..Len(candidates) : td_lower(candidates[k]) = x}
             lowest(S)  == CHOOSE k \in S : \A j \in S : k <= j
         IN IF candidates = <<>> THEN LangNone
            ELSE IF exact(<<"t", "e", "s", "t", "s">>) # {}
            THEN candidates[lowest(exact(<<"t", "e", "s", "t", "s">>))]
            ELSE IF exact(<<"t", "e", "s", "t">>) # {}
            THEN candidates[lowest(exact(<<"t", "e", "s", "t">>))]
            ELSE candidates[1]

\* find_main_test_folder(repo): raises says that repo.get_contents("")
\* raised a GithubException. LangNone (<<>>) is None. list.sort is stable:
\* of two names with the same key the earlier stays first.
find_main_test_folder(raises, contents) ==
    IF raises THEN LangNone
    ELSE LET candidates == candidate_root_test_dirs(contents)
             lowered    == [k \in 1..Len(candidates) |-> td_lower(candidates[k])]
             index(x)   == CHOOSE k \in 1..Len(lowered) :
                               lowered[k] = x /\ \A j \in 1..(k - 1) : lowered[j] # x
             first      == CHOOSE k \in 1..Len(candidates) :
                               \A j \in 1..Len(candidates) :
                                   j # k => \/ tf_key_less(candidates[k], candidates[j])
                                            \/ /\ ~tf_key_less(candidates[j], candidates[k])
                                               /\ k < j
         IN IF candidates = <<>> THEN LangNone
            ELSE IF \E k \in 1..Len(lowered) : lowered[k] = <<"t", "e", "s", "t", "s">>
            THEN candidates[index(<<"t", "e", "s", "t", "s">>)]
            ELSE IF \E k \in 1..Len(lowered) : lowered[k] = <<"t", "e", "s", "t">>
            THEN candidates[index(<<"t", "e", "s", "t">>)]
            ELSE candidates[first]

\* The arguments the functions are called with.
FnInit ==
    /\ OthersIdle("functions")
    /\ fn_done = FALSE
    /\ fn_ret = <<>>
    /\ \/ /\ fn_name = "get_owner_repo_from_url"
          /\ \E n \in 0..MaxLen :
               fn_arg \in [prefix : {"https://github.com/", "https://www.github.com/",
                                     "https://gitlab.com/"},
                           segments : [1..n -> {<<"owner">>, <<"repo">>, <<"repo", ".git">>,
                                                <<"my", ".git", "hub.io">>}]]
       \/ /\ fn_name = "search_keywords"
          /\ \E n \in 0..MaxLen + 1 :
               fn_arg \in [text : [1..n -> {"a", "b", "A", " ", "_"}],
                           keyword_list : {<<>>, << <<"a", "b">>, <<"a">> >>,
                                           << <<"b">>, <<"a", " ", "b">>, <<"A", "b">> >>}]
       \/ /\ fn_name = "comment_process_repository"
          /\ \E n \in 0..(MaxLen + 1) :
                 fn_arg \in [remaining : {0, 1}, language : {"Python", "R", "C++"},
                             files : [1..n -> BOOLEAN]]
       \/ /\ fn_name = "ci_rules_process_repository"
          /\ \E n \in 0..MaxLen :
                 fn_arg \in [contents : [1..n -> [yaml : BOOLEAN,
                                                  words : {{}, {"pytest"}, {"flake8"},
                                                           {"testthat"}}]],
                             travis : [found : {FALSE}, words : {{}}]
                                      \cup [found : {TRUE},
                                            words : {{}, {"pytest"}, {"flake8"}}]]
       \/ /\ fn_name = "td_process_repo"
          /\ fn_arg \in [csv_language : TdLanguages,
                          top : {LangNone, LangPython},
                          paths : {{}, {"DESCRIPTION", "README.md"}, {"requirements.txt"}},
                          texts : {{}, {"pytest"}, {"testthat"}}]
       \/ /\ fn_name = "find_main_test_folder"
          /\ \E n \in 0..MaxLen :
                 /\ fn_arg \in [raises : BOOLEAN, contents : [1..n -> TfItems]]
                 /\ \A i, j \in 1..n :
                        fn_arg.contents[i].name = fn_arg.contents[j].name => i = j
       \/ /\ fn_name = "classify_contributor_count"
          /\ fn_arg \in [kind : {"int"}, value : (0 - 2)..(MaxLen + 3)]
                     \cup [kind : {"nan", "text", "None", "inf"}, value : {0}]
                     \cup [kind : {"huge"}, value : {MaxLen + 4}]
       \/ /\ fn_name = "parse_cmake_files"
          /\ \E n \in 0..MaxLen :
               fn_arg \in [first : [cmd : {"find_package", "FIND_PACKAGE", "add_test"},
                                    args : [1..n -> {"GTest", "Boost", "1.70",
                                                     "REQUIRED", "CONFIG"}]],
                           rest : {<<>>, <<CMakeLine("add_test", <<"GTest">>)>>,
                                   <<CMakeLine("find_package", <<"Boost">>)>>}]

fn_get_owner_repo_from_url ==
    /\ fn_name = "get_owner_repo_from_url" /\ ~fn_done
    /\ fn_ret' = get_owner_repo_from_url(fn_arg)
    /\ fn_done' = TRUE
    /\ UNCHANGED <<fn_name, fn_arg>>
    /\ OthersUnchanged("functions")

fn_search_keywords ==
    /\ fn_name = "search_keywords" /\ ~fn_done
    /\ fn_ret' = search_keywords(fn_arg.text, fn_arg.keyword_list)
    /\ fn_done' = TRUE
    /\ UNCHANGED <<fn_name, fn_arg>>
    /\ OthersUnchanged("functions")

\* process_repository on a GitHub repository answered as fn_arg.
fn_comment_process_repository ==
    /\ fn_name = "comment_process_repository" /\ ~fn_done
    /\ fn_ret' = comment_process_repository(GithubUrl, fn_arg)
    /\ fn_done' = TRUE
    /\ UNCHANGED <<fn_name, fn_arg>>
    /\ OthersUnchanged("functions")

fn_ci_rules_process_repository ==
    /\ fn_name = "ci_rules_process_repository" /\ ~fn_done
    /\ fn_ret' = ci_rules_process_repository(fn_arg.contents, fn_arg.travis)
    /\ fn_done' = TRUE
    /\ UNCHANGED <<fn_name, fn_arg>>
    /\ OthersUnchanged("functions")

fn_td_process_repo ==
    /\ fn_name = "td_process_repo" /\ ~fn_done
    /\ fn_ret' = td_process_repo(fn_arg.csv_language, fn_arg)
    /\ fn_done' = TRUE
    /\ UNCHANGED <<fn_name, fn_arg>>
    /\ OthersUnchanged("functions")

fn_find_main_test_folder ==
    /\ fn_name = "find_main_test_folder" /\ ~fn_done
    /\ fn_ret' = find_main_test_folder(fn_arg.raises, fn_arg.contents)
    /\ fn_done' = TRUE
    /\ UNCHANGED <<fn_name, fn_arg>>
    /\ OthersUnchanged("functions")

fn_classify_contributor_count ==
    /\ fn_name = "classify_contributor_count" /\ ~fn_done
    /\ fn_ret' = classify_contributor_count(fn_arg)
    /\ fn_done' = TRUE
    /\ UNCHANGED <<fn_name, fn_arg>>
    /\ OthersUnchanged("functions")

\* parse_cmake_files on one file with the lines of fn_arg.
fn_parse_cmake_files ==
    /\ fn_name = "parse_cmake_files" /\ ~fn_done
    /\ fn_ret' = parse_cmake_files(<<cm_file_of_lines(<<fn_arg.first>> \o fn_arg.rest)>>)
    /\ fn_done' = TRUE
    /\ UNCHANGED <<fn_name, fn_arg>>
    /\ OthersUnchanged("functions")

FnNext ==
    \/ fn_get_owner_repo_from_url
    \/ fn_parse_cmake_files
    \/ fn_search_keywords
    \/ fn_classify_contributor_count
    \/ fn_find_main_test_folder
    \/ fn_td_process_repo
    \/ fn_ci_rules_process_repository
    \/ fn_comment_process_repository

SpecFunctions == FnInit /\ [][FnNext]_vars

\* C14: get_owner_repo_from_url returns (owner, repo) for every accepted
\* form https://github.com/owner/repo, with or without 'www.' and with or
\* without a trailing '.git'; repo is the name with only a trailing '.git'
\* removed.
C14_OwnerRepoForAcceptedForms ==
    (/\ fn_name = "get_owner_repo_from_url" /\ fn_done
     /\ fn_arg.prefix \in {"https://github.com/", "https://www.github.com/"}
     /\ Len(fn_arg.segments) = 2)
        => LET name == fn_arg.segments[2]
               repo == IF name[Len(name)] = ".git"
                       THEN SubSeq(name, 1, Len(name) - 1) ELSE name
           IN fn_ret = <<fn_arg.segments[1], repo>>

\* C15: parse_cmake_files on a single CMake file whose only find_package
\* call is find_package(GTest REQUIRED) reports uses_gtest, exactly one
\* entry in dependencies (name 'GTest', version 'Any') and no
\* opt_dependencies.
C15_GTestRequiredParsed ==
    (/\ fn_name = "parse_cmake_files" /\ fn_done
     /\ fn_arg.first = CMakeLine("find_package", <<"GTest", "REQUIRED">>)
     /\ \A k \in 1..Len(fn_arg.rest) : fn_arg.rest[k].cmd = "add_test")
        => /\ fn_ret.ok
           /\ fn_ret.uses_gtest
           /\ fn_ret.dependencies = <<[name |-> "GTest", version |-> "Any"]>>
           /\ fn_ret.opt_dependencies = <<>>

\* C15 witness: the file with that call and an add_test line was parsed.
C15_Witness ==
    /\ fn_name = "parse_cmake_files" /\ fn_done
    /\ fn_arg.first = CMakeLine("find_package", <<"GTest", "REQUIRED">>)
    /\ fn_arg.rest # <<>>
    /\ fn_ret.uses_gtest /\ fn_ret.tests_found

\* A keyword occurs in the text as a whole word: an occurrence, compared
\* without regard to case, that neither follows nor precedes a letter,
\* digit or underscore.
KwWholeWord(text, keyword) ==
    \E i \in 1..Len(text) :
        /\ i + Len(keyword) - 1 <= Len(text)
        /\ \A j \in 1..Len(keyword) :
               kw_lower(<<text[i + j - 1]>>) = kw_lower(<<keyword[j]>>)
        /\ i > 1 => text[i - 1] = " "
        /\ i + Len(keyword) <= Len(text) => text[i + Len(keyword)] = " "

\* C16: search_keywords returns, in list order, exactly the keywords of
\* keyword_list that occur in the text as whole words, compared
\* case-insensitively; a keyword that occurs only inside a longer word is
\* not returned.
C16_WholeWordKeywords ==
    (fn_name = "search_keywords" /\ fn_done)
        => fn_ret = SelectSeq(fn_arg.keyword_list,
                              LAMBDA keyword : KwWholeWord(fn_arg.text, keyword))

\* C16 witness: "Ab" as a word of its own is found for the keyword "ab",
\* and the keyword "a", only part of that word, is not.
C16_Witness ==
    /\ fn_name = "search_keywords" /\ fn_done
    /\ fn_arg.text = <<"b", " ", "A", "b">>
    /\ fn_arg.keyword_list = << <<"a", "b">>, <<"a">> >>
    /\ fn_ret = << <<"a", "b">> >>

\* C17: the output CSV of process_csv_and_handle_repos holds every column
\* of the input CSV with its original value; columns are only added.
C17_InputColumnsKept ==
    cm_pc = "done" =>
        \A k \in 1..Len(cm_out.rows) :
            \A col \in DOMAIN cm_rows[k] :
                /\ col \in DOMAIN cm_out.rows[k]
                /\ cm_out.rows[k][col] = cm_rows[k][col]

\* ------------------------------------------------------------------
\* github_api/enrich_repo_data.py : main
\* ------------------------------------------------------------------

\* pd.merge(df, metadata_df, on='html_url', how='left'): every row of df
\* once per metadata entry with its html_url, or once with empty metadata.
\* A metadata_df built from an empty list has no html_url column and the
\* merge raises KeyError.
enrich_merge(df, metadata_list) ==
    LET matches(u) == SelectSeq(metadata_list, LAMBDA m : m.html_url = u)
        rows_of(r) == IF matches(r.html_url) = <<>>
                      THEN <<[html_url |-> r.html_url, note |-> r.note, Stars |-> NA]>>
                      ELSE [k \in 1..Len(matches(r.html_url)) |->
                               [html_url |-> r.html_url, note |-> r.note,
                                Stars |-> matches(r.html_url)[k].Stars]]
        RECURSIVE from(_)
        from(k) == IF k > Len(df) THEN <<>> ELSE rows_of(df[k]) \o from(k + 1)
    IN IF metadata_list = <<>>
       THEN [raises |-> TRUE, rows |-> <<>>]
       ELSE [raises |-> FALSE, rows |-> from(1)]

EnrichInit ==
    /\ OthersIdle("enrich")
    /\ en_pc = "row"
    /\ en_idx = 1
    /\ en_df \in [1..MaxRows -> [html_url : {GithubUrl, GithubGitUrl, GitlabUrl, MissingUrl},
                                 note : {"a", "b"}]]
    /\ en_metadata_list = <<>>
    /\ en_sleeps = 0
    /\ en_out = NoFile

\* One iteration of the loop of main, with get_repo_metadata: limited is the
\* number of HTTP 403 answers before the answer out.
enrich_row(limited, out) ==
    /\ en_pc = "row"
    /\ en_idx <= Len(en_df)
    /\ LET url == en_df[en_idx].html_url IN
       IF url = MissingUrl \/ url.host \notin {"github.com", "www.github.com"}
       THEN /\ limited = 0 /\ out = "error"
            /\ UNCHANGED <<en_metadata_list, en_sleeps>>
       ELSE /\ en_sleeps' = en_sleeps + limited
            /\ en_metadata_list' =
                   IF out = "error" THEN en_metadata_list
                   ELSE Append(en_metadata_list, [html_url |-> url, Stars |-> out])
    /\ en_idx' = en_idx + 1
    /\ UNCHANGED <<en_pc, en_df, en_out>>
    /\ OthersUnchanged("enrich")

\* main, lines 195-205: the metadata is merged into df and written.
enrich_merge_save ==
    /\ en_pc = "row"
    /\ en_idx > Len(en_df)
    /\ LET merged == enrich_merge(en_df, en_metadata_list) IN
       IF merged.raises
       THEN en_pc' = "raised" /\ UNCHANGED en_out
       ELSE en_pc' = "done" /\ en_out' = [written |-> TRUE, rows |-> merged.rows]
    /\ UNCHANGED <<en_idx, en_df, en_metadata_list, en_sleeps>>
    /\ OthersUnchanged("enrich")

EnrichNext ==
    \/ \E limited \in 0..MaxRateLimits, out \in {"error", "12", "40"} : enrich_row(limited, out)
    \/ enrich_merge_save

SpecEnrich == EnrichInit /\ [][EnrichNext]_vars

\* C19: whatever URLs fail to be fetched, all of them included, main writes
\* an output CSV in which every input row appears exactly once with its
\* original values, the metadata of the rows that were not fetched empty.
C19_OutputKeepsEveryRow ==
    en_pc \in {"done", "raised"} =>
        /\ en_out # NoFile
        /\ Len(en_out.rows) = Len(en_df)
        /\ \A k \in 1..Len(en_df) :
               /\ en_out.rows[k].html_url = en_df[k].html_url
               /\ en_out.rows[k].note = en_df[k].note
               /\ (\A j \in 1..Len(en_metadata_list) :
                       en_metadata_list[j].html_url # en_df[k].html_url)
                      => en_out.rows[k].Stars = NA

\* C20: classify_contributor_count gives every integer count exactly one
\* outcome (0 for 1, 1 for 2 and 3, 2 from 4 on, None for 0 and below),
\* gives None for a missing or non-numeric value, and never raises.
C20_ContributorClasses ==
    (fn_name = "classify_contributor_count" /\ fn_done) =>
        /\ ~fn_ret.raises
        /\ fn_arg.kind \in {"int", "huge"} =>
               fn_ret.class = (IF fn_arg.value = 1 THEN <<0>>
                               ELSE IF 1 < fn_arg.value /\ fn_arg.value <= 3 THEN <<1>>
                               ELSE IF fn_arg.value >= 4 THEN <<2>>
                               ELSE <<>>)
        /\ fn_arg.kind \in {"nan", "text", "None"} => fn_ret.class = <<>>

\* C21: for a repository in a supported language with total source files,
\* commented of them starting with a comment, process_repository returns
\* 'most' iff 100*commented > 75*total, 'more' iff 50*total < 100*commented
\* <= 75*total, 'some' iff 25*total < 100*commented <= 50*total, 'none'
\* otherwise, and percentage 0 with 'none' when total = 0.
C21_CommentCategories ==
    (fn_name = "comment_process_repository" /\ fn_done) =>
        LET total == Len(fn_arg.files)
            commented == Cardinality({k \in 1..total : fn_arg.files[k]})
        IN /\ fn_ret.state = "returned"
           /\ IF total = 0
              THEN fn_ret.pct[1] = 0 /\ fn_ret.cat = "none"
              ELSE /\ fn_ret.pct[1] * total = 100 * commented * fn_ret.pct[2]
                   /\ fn_ret.cat = "most" <=> 100 * commented > 75 * total
                   /\ fn_ret.cat = "more" <=>
                          (50 * total < 100 * commented /\ 100 * commented <= 75 * total)
                   /\ fn_ret.cat = "some" <=>
                          (25 * total < 100 * commented /\ 100 * commented <= 50 * total)
                   /\ fn_ret.cat = "none" <=> 100 * commented <= 25 * total

\* Three of four files start with a comment: exactly 75 percent, 'more'.
C21_Witness ==
    /\ fn_name = "comment_process_repository" /\ fn_done
    /\ Len(fn_arg.files) = 4
    /\ Cardinality({k \in 1..4 : fn_arg.files[k]}) = 3
    /\ fn_ret.cat = "more"

\* The file contents add_ci_rules.process_repository scans: the .yml and
\* .yaml files under .github, and .travis.yml.
CiRulesScanned ==
    {fn_arg.contents[k].words : k \in {j \in 1..Len(fn_arg.contents) : fn_arg.contents[j].yaml}}
    \cup (IF fn_arg.travis.found THEN {fn_arg.travis.words} ELSE {})

\* C22: for a row whose two cells start empty, add_test_rule ends True iff
\* at least one scanned YAML file holds a Python testing library as a whole
\* word, and add_lint_rule likewise for the linters, whatever the order of
\* the files.
C22_AnyFileDecides ==
    (fn_name = "ci_rules_process_repository" /\ fn_done) =>
        /\ fn_ret.add_test_rule = "True" <=>
               \E c \in CiRulesScanned : check_testing_libraries(c, "python")
        /\ fn_ret.add_lint_rule = "True" <=>
               \E c \in CiRulesScanned : check_linters(c, "python")

\* Whether a repository has a find_package call with a version, among the
\* calls with REQUIRED (required = TRUE) or among those without.
CmHasPinnedCall(repo, required) ==
    \E f \in 1..Len(repo.files) : \E c \in 1..Len(repo.files[f].calls) :
        /\ repo.files[f].calls[c].required = required
        /\ repo.files[f].calls[c].version # ""

\* C23: has_cmake_pinned_req_deps is True iff a required dependency has a
\* version other than 'Any', and has_cmake_pinned_opt_deps is True iff an
\* optional dependency has one.
C23_PinnedColumns ==
    \A k \in 1..Len(cm_results) :
        /\ cm_results[k].has_cmake_pinned_req_deps = CmHasPinnedCall(cm_rows[k].repo, TRUE)
        /\ cm_results[k].has_cmake_pinned_opt_deps = CmHasPinnedCall(cm_rows[k].repo, FALSE)

\* ------------------------------------------------------------------
\* dependency_practices/dependency_lock_files.py : __main__
\* ------------------------------------------------------------------

common_dependency_files ==
    [l \in {"Python", "R", "C++"} |->
        IF l = "Python" THEN {"Pipfile.lock", "poetry.lock", "requirement.lock"}
        ELSE IF l = "R" THEN {"renv.lock", "packrat.lock"}
        ELSE {"vcpkg.lock", "conan.lock", "CMakeCache.txt"}]

\* What GitHub answers for one repository once the rate limit lets the
\* request through: whether get_repo succeeds, the language, the files at
\* the root.
LockOutcomes ==
    [get_repo : {"ok", "error"}, language : {"Python", "R", "Java"},
     files : {{}, {"poetry.lock"}, {"renv.lock", "README.md"}}]

\* check_requirements(repository_url): True, False, or None on a
\* GithubException of get_repo.
check_requirements(out) ==
    IF out.get_repo = "error" THEN NA
    ELSE IF out.language \in DOMAIN common_dependency_files
            /\ \E dependency_file \in common_dependency_files[out.language] :
                   dependency_file \in out.files
    THEN "True"
    ELSE "False"

\* is_github_url(url)
is_github_url(url) == url # MissingUrl /\ url.host = "github.com"

\* After pd.read_csv: dependency_lock_files is "" in every row and there is
\* no requirements_defined column yet.
LockInit ==
    /\ OthersIdle("lock")
    /\ lk_pc = "row"
    /\ lk_idx = 1
    /\ lk_df \in [1..MaxRows -> [html_url : {GithubUrl, GithubGitUrl, GitlabUrl, MissingUrl},
                                 dependency_lock_files : {""},
                                 requirements_defined : {Absent}]]
    /\ lk_ret = [i \in 1..MaxRows |-> "not_called"]
    /\ lk_sleeps = 0
    /\ lk_out = NoFile

\* One iteration of the loop: limited is the number of times
\* check_requirements met RateLimitExceededException, slept and called itself
\* again before GitHub answered out. The first write to requirements_defined
\* creates the column, NaN in the other rows.
lock_row(limited, out) ==
    /\ lk_pc = "row"
    /\ lk_idx <= Len(lk_df)
    /\ IF ~is_github_url(lk_df[lk_idx].html_url)
       THEN /\ limited = 0 /\ out = [get_repo |-> "error", language |-> "Java", files |-> {}]
            /\ lk_df' = [lk_df EXCEPT ![lk_idx].dependency_lock_files = NA]
            /\ UNCHANGED <<lk_ret, lk_sleeps>>
       ELSE LET result == check_requirements(out) IN
            /\ lk_sleeps' = lk_sleeps + limited
            /\ lk_ret' = [lk_ret EXCEPT ![lk_idx] = result]
            /\ lk_df' = [i \in 1..Len(lk_df) |->
                           IF i = lk_idx
                           THEN [lk_df[i] EXCEPT !.requirements_defined = result]
                           ELSE IF lk_df[i].requirements_defined = Absent
                           THEN [lk_df[i] EXCEPT !.requirements_defined = NA]
                           ELSE lk_df[i]]
    /\ lk_idx' = lk_idx + 1
    /\ UNCHANGED <<lk_pc, lk_out>>
    /\ OthersUnchanged("lock")

\* input_data.to_csv after the loop.
lock_to_csv ==
    /\ lk_pc = "row"
    /\ lk_idx > Len(lk_df)
    /\ lk_out' = [written |-> TRUE, df |-> lk_df]
    /\ lk_pc' = "done"
    /\ UNCHANGED <<lk_idx, lk_df, lk_ret, lk_sleeps>>
    /\ OthersUnchanged("lock")

LockNext ==
    \/ \E limited \in 0..MaxRateLimits, out \in LockOutcomes : lock_row(limited, out)
    \/ lock_to_csv

SpecLock == LockInit /\ [][LockNext]_vars

\* C24: after the run every row with a GitHub URL holds in
\* dependency_lock_files what check_requirements returned for it (True,
\* False, empty on error), and every other row an empty value.
C24_LockColumnHoldsOutcome ==
    lk_pc = "done" =>
        \A i \in 1..Len(lk_df) :
            LET cell == lk_out.df[i].dependency_lock_files IN
            IF is_github_url(lk_df[i].html_url)
            THEN IF lk_ret[i] = NA THEN cell \in {"", NA} ELSE cell = lk_ret[i]
            ELSE cell \in {"", NA}

\* C25: a repository whose Language cell names a language other than
\* Python, R or C++ (Ruby, Rust, Java) is not in the target set:
\* process_repo returns (False, '', False, '') without listing its files.
C25_OtherLanguagesSkipped ==
    (/\ fn_name = "td_process_repo" /\ fn_done
     /\ fn_arg.csv_language \in {<<"J", "a", "v", "a">>, <<"R", "u", "b", "y">>,
                                 <<"R", "u", "s", "t">>, <<" ", "G", "o">>}) =>
        /\ ~fn_ret.listed
        /\ fn_ret.ret = <<FALSE, {}, FALSE, {}>>

\* The names of the root-level directories of the repository that start
\* with 'test', whatever the case.
TfTestDirs ==
    {fn_arg.contents[k].name : k \in {j \in 1..Len(fn_arg.contents) :
        /\ fn_arg.contents[j].type = "dir"
        /\ td_startswith(td_lower(fn_arg.contents[j].name), <<"t", "e", "s", "t">>)}}

\* The selection rule of find_main_test_folder among the names of dirs.
TfChosen(dirs, ret) ==
    /\ ret \in dirs
    /\ IF \E d \in dirs : td_lower(d) = <<"t", "e", "s", "t", "s">>
       THEN td_lower(ret) = <<"t", "e", "s", "t", "s">>
       ELSE IF \E d \in dirs : td_lower(d) = <<"t", "e", "s", "t">>
       THEN td_lower(ret) = <<"t", "e", "s", "t">>
       ELSE \A d \in dirs :
               /\ Len(d) <= Len(ret)
               /\ Len(d) = Len(ret) => ~tf_str_less(td_lower(d), td_lower(ret))

CiPairFor(outs) ==
    IF \E k \in 1..Len(ci_checks) : outs[k] = "found"
    THEN <<"True", ci_checks[CHOOSE k \in 1..Len(ci_checks) :
                                 /\ outs[k] = "found"
                                 /\ \A j \in 1..(k - 1) : outs[j] # "found"]>>
    ELSE <<"False", "">>

\* For a tool t, or "" for none: the pairs the claim allows for the check
\* outcomes from which the loop of main ends with ci_found = t.
CiClaimedFor ==
    [t \in {ci_checks[k] : k \in 1..Len(ci_checks)} \cup {""} |->
        {CiPairFor(outs) : outs \in {o \in [1..Len(ci_checks) -> CiCheckOutcomes] :
                                        ci_first_found(o, 1) = t}}]

\* C28: for every row handled in the current run the pair
\* (continuous_integration, ci_tool) written is (True, t) with t the first
\* tool in the order github_actions, travis, circleci, jenkins,
\* azure_pipelines whose check returned a result, (False, '') when no check
\* did, or (NA, NA) for a missing or non-GitHub URL or a GithubException of
\* get_repo; no other combination is written.
C28_OnlyListedPairs ==
    [][(ci_pc = "row" /\ ci_idx' = ci_idx + 1 /\ ci_df[ci_idx].in_input) =>
         LET pair    == <<ci_df'[ci_idx].continuous_integration, ci_df'[ci_idx].ci_tool>>
             handled == ci_hist'[ci_idx].handled
             github  == ci_parse_github_owner_repo(ci_df[ci_idx].html_url).ok
         IN /\ \A i \in 1..Len(ci_df) : i # ci_idx => ci_df'[i] = ci_df[i]
            /\ \/ ~github /\ pair = <<NA, NA>>
               \/ github /\ handled = "exception" /\ pair = <<NA, NA>>
               \/ /\ github /\ handled = "checked"
                  /\ pair \in {<<"True", ci_checks[k]>> : k \in 1..Len(ci_checks)}
                              \cup {<<"False", "">>}
                  /\ CiClaimedFor[pair[2]] = {pair}]_vars

\* A repository that had no result is checked; travis is the first tool
\* found and the pair (True, travis) is in the table.
C28_Witness ==
    /\ ci_idx = 2
    /\ ci_hist[1].handled = "checked"
    /\ ci_df[1].html_url = GithubUrl
    /\ ci_df[1].continuous_integration = "True"
    /\ ci_df[1].ci_tool = "travis"

\* ------------------------------------------------------------------
\* testing_practices/check_test_dependency.py : ensure_rate_headroom
\* ------------------------------------------------------------------

SLEEP_MINUTES_ON_RATE_LIMIT == 20
RATE_LIMIT_POLL_SECS == 5

\* What g.get_rate_limit() ends in inside ensure_rate_headroom: the quota
\* core.remaining, RateLimitExceededException, or another exception.
HeadroomAnswers ==
    [kind : {"ok"}, remaining : {0, 1, 60, 4999}]
    \cup [kind : {"rate_limited", "error"}, remaining : {0}]

\* What g.get_rate_limit() ends in inside wait_out_rate_limit: the seconds
\* until core.reset, or an exception.
WaitAnswers ==
    [kind : {"ok"}, reset_in : {10, 1500, 3000}] \cup [kind : {"error"}, reset_in : {0}]

\* wait_out_rate_limit(g): the seconds slept.
wait_out_rate_limit(ans) ==
    IF ans.kind = "ok"
    THEN IF ans.reset_in + 1 > SLEEP_MINUTES_ON_RATE_LIMIT * 60
         THEN ans.reset_in + 1 ELSE SLEEP_MINUTES_ON_RATE_LIMIT * 60
    ELSE SLEEP_MINUTES_ON_RATE_LIMIT * 60

\* One pass of the loop with the return at remaining >= 0.
ensure_rate_headroom_returns_at_zero(out) ==
    IF out.kind = "ok"
    THEN IF out.remaining >= 0 THEN [pc |-> "returned", sleep |-> 0]
         ELSE [pc |-> "poll", sleep |-> RATE_LIMIT_POLL_SECS]
    ELSE IF out.kind = "rate_limited" THEN [pc |-> "wait", sleep |-> 0]
    ELSE [pc |-> "poll", sleep |-> RATE_LIMIT_POLL_SECS]

\* One pass of the loop of ensure_rate_headroom for the answer out: where
\* it goes on, and the seconds it sleeps before.
ensure_rate_headroom(out) ==
    IF out.kind = "ok"
    THEN IF out.remaining > 0 THEN [pc |-> "returned", sleep |-> 0]
         ELSE [pc |-> "poll", sleep |-> RATE_LIMIT_POLL_SECS]
    ELSE IF out.kind = "rate_limited" THEN [pc |-> "wait", sleep |-> 0]
    ELSE [pc |-> "poll", sleep |-> RATE_LIMIT_POLL_SECS]

HeadroomInit ==
    /\ OthersIdle("headroom")
    /\ rh_pc = "poll"
    /\ rh_log = <<>>
    /\ rh_misses = 0
    /\ rh_slept = 0

\* The try block of the loop and its handlers. At most MaxRateLimits
\* queries in a row fail or report an empty quota.
headroom_poll(out) ==
    /\ rh_pc = "poll"
    /\ (out.kind # "ok" \/ out.remaining = 0) => rh_misses < MaxRateLimits
    /\ LET step == ensure_rate_headroom(out) IN
       /\ rh_pc' = step.pc
       /\ rh_slept' = rh_slept + step.sleep
    /\ rh_log' = Append(rh_log, out)
    /\ rh_misses' = IF out.kind = "ok" /\ out.remaining > 0 THEN rh_misses ELSE rh_misses + 1
    /\ OthersUnchanged("headroom")

\* wait_out_rate_limit, called from the RateLimitExceededException handler.
headroom_wait(ans) ==
    /\ rh_pc = "wait"
    /\ rh_slept' = rh_slept + wait_out_rate_limit(ans)
    /\ rh_pc' = "poll"
    /\ UNCHANGED <<rh_log, rh_misses>>
    /\ OthersUnchanged("headroom")

HeadroomNext ==
    \/ \E out \in HeadroomAnswers : headroom_poll(out)
    \/ \E ans \in WaitAnswers : headroom_wait(ans)

\* The loop runs on as long as it has not returned.
SpecHeadroom == HeadroomInit /\ [][HeadroomNext]_vars /\ WF_vars(HeadroomNext)

\* C27: ensure_rate_headroom returns only after a rate-limit query that
\* reported core.remaining > 0, no exception escapes it, and when the quota
\* becomes positive and the queries succeed in the end, it returns in the end.
C27_HeadroomReturns ==
    /\ [](rh_pc = "returned" => /\ rh_log # <<>>
                                /\ rh_log[Len(rh_log)].kind = "ok"
                                /\ rh_log[Len(rh_log)].remaining > 0)
    /\ [](rh_pc \in {"poll", "wait", "returned"})
    /\ <>(rh_pc = "returned")

\* The quota was exhausted twice, the second time with
\* RateLimitExceededException and a long wait, before the function returned.
C27_Witness ==
    /\ rh_pc = "returned"
    /\ rh_misses = 2
    /\ rh_slept > SLEEP_MINUTES_ON_RATE_LIMIT * 60 + RATE_LIMIT_POLL_SECS

====
